---- MODULE Spec2Model ----
(***************************************************************************)
(* Model of the spreadsheet template population engine and of the feature *)
(* list parser of the tta-ai-project backend.                              *)
(*                                                                         *)
(* Text is a sequence of one-character strings.  Hangul syllables are     *)
(* written in Latin transliteration, one syllable per element ("dae" is   *)
(* the syllable of the label dae-bun-ryu, the major category).  Python's  *)
(* None is the one-element sequence None.                                  *)
(***************************************************************************)
EXTENDS Integers, Sequences, FiniteSets, TLC

VARIABLES
    stored,       \* Remote File Store: the workbook container of the project
    records,      \* the DataRecords written by the last populate
    overviewArg,  \* the overview value handed to the last populate
    startRow,     \* data start row the last populate resolved (0: none yet)
    oldEnd,       \* last row of the data block the last populate found
    httpStatus,   \* outcome of the last service operation
    sheetRows,    \* parse_feature_list_workbook: rows of the worksheet read
    parsed,       \* parse_feature_list_workbook: its result (or NotParsed)
    call,         \* the operation or helper call in progress: arguments, result
    drive         \* Google Drive: the gs folder, its listed files, the uploads

popVars == <<stored, records, overviewArg, startRow, oldEnd, httpStatus>>
parseVars == <<sheetRows, parsed>>
envVars == <<drive>>
vars == <<stored, records, overviewArg, startRow, oldEnd, httpStatus, sheetRows, parsed, call,
          drive>>

\* the collaborators an operation does not use are left as they are
NoDrive == [folder |-> FALSE, files |-> <<>>, uploads |-> <<>>]
EnvIdle == drive = NoDrive

-----------------------------------------------------------------------------
(* Bounds *)

MaxRecords == 3
MaxUpdateRows == 2
MaxOverviewRecords == 1
MaxFilledRows == 3
MaxHeaderCells == 3
MaxListedFiles == 2
MaxNow == 75
MaxRefreshCalls == 3
MaxLogins == 2
MaxCallbacks == 3
MaxProjects == 3
MaxUploads == 3

-----------------------------------------------------------------------------
(* Text *)

None == <<"<None>">>

SPACE == " "
NBSP == "nbsp"
NEWLINE == "\n"

IsSpace(ch) == ch \in {SPACE, NBSP, NEWLINE}

Max(a, b) == IF a >= b THEN a ELSE b
Min(a, b) == IF a <= b THEN a ELSE b

SeqsUpTo(S, n) == UNION {[1..k -> S] : k \in 0..n}

RECURSIVE LStrip(_)
LStrip(s) ==
    IF s = <<>> THEN <<>>
    ELSE IF IsSpace(Head(s)) THEN LStrip(Tail(s)) ELSE s

RECURSIVE RStrip(_)
RStrip(s) ==
    IF s = <<>> THEN <<>>
    ELSE IF IsSpace(s[Len(s)]) THEN RStrip(SubSeq(s, 1, Len(s) - 1)) ELSE s

\* str.strip()
Strip(s) == RStrip(LStrip(s))

\* unicodedata.normalize("NFKC", ch) and .replace("\xa0", " "): the no-break
\* space becomes a space; str.lower() on the Latin capitals of the data values
NormalizeChar(ch) ==
    CASE ch = NBSP -> SPACE
      [] ch = "A" -> "a"
      [] ch = "B" -> "b"
      [] OTHER -> ch

\* re.sub(r"\s+", " ", s): every whitespace run becomes one space
RECURSIVE CollapseSpaces(_)
CollapseSpaces(s) ==
    IF s = <<>> THEN <<>>
    ELSE IF IsSpace(Head(s))
         THEN <<SPACE>> \o CollapseSpaces(LStrip(s))
         ELSE <<Head(s)>> \o CollapseSpaces(Tail(s))

normalize_drive_text(value) ==
    CollapseSpaces(Strip([i \in 1..Len(value) |-> NormalizeChar(value[i])]))

IsSquashed(ch) == IsSpace(ch) \/ ch \in {".", "_", "-", "(", ")"}

\* re.sub(r"[\s._\-()]+", "", value)
squash_drive_text(value) == SelectSeq(value, LAMBDA ch : ~IsSquashed(ch))

\* Python's `needle in hay` on str
Contains(hay, needle) ==
    \E i \in 0..(Len(hay) - Len(needle)) :
        SubSeq(hay, i + 1, i + Len(needle)) = needle

CellText(value) == IF value = None THEN <<>> ELSE value

\* lines 110-127: one (expected label, cell) comparison
HeaderCellMatches(actual_value, actual_squashed, expected_value, expected_squashed) ==
    /\ ~(actual_value = <<>> /\ actual_squashed = <<>>)
    /\ \/ /\ expected_value # <<>>
          /\ actual_value # <<>>
          /\ \/ actual_value = expected_value
             \/ Contains(actual_value, expected_value)
             \/ Contains(expected_value, actual_value)
       \/ /\ expected_squashed # <<>>
          /\ actual_squashed # <<>>
          /\ Contains(actual_squashed, expected_squashed)

\* lines 93-99: the normalized form of each text of a list
NormalizedTexts(texts) ==
    [i \in 1..Len(texts) |-> normalize_drive_text(CellText(texts[i]))]

SquashedTexts(normalized) ==
    [i \in 1..Len(normalized) |-> squash_drive_text(normalized[i])]

\* lines 101-128, matches: every expected label is counted at most once
HeaderMatchCount(normalized_values, squashed_values, normalized_expected, squashed_expected) ==
    Cardinality({j \in 1..Len(normalized_expected) :
        /\ ~(normalized_expected[j] = <<>> /\ squashed_expected[j] = <<>>)
        /\ \E i \in 1..Len(normalized_values) :
               HeaderCellMatches(normalized_values[i], squashed_values[i],
                                 normalized_expected[j], squashed_expected[j])})

\* mutant: every expected label has to be matched
MeetsThreshold_AllLabels(matches, expected) ==
    matches # 0 /\ matches >= Len(expected)

MeetsThreshold(matches, expected) ==
    matches # 0 /\ matches >= Max(1, Len(expected) - 1)

\* each list is computed once, as the bound variables of the same names
looks_like_header_row(values, expected) ==
    /\ values # <<>>
    /\ \E normalized_values \in {NormalizedTexts(values)} :
       \E squashed_values \in {SquashedTexts(normalized_values)} :
       \E normalized_expected \in {NormalizedTexts(expected)} :
       \E squashed_expected \in {SquashedTexts(normalized_expected)} :
       \E matches \in {HeaderMatchCount(normalized_values, squashed_values,
                                        normalized_expected, squashed_expected)} :
           MeetsThreshold(matches, expected)

-----------------------------------------------------------------------------
(* Column schema of the feature list *)

LabelMajor == <<"dae", "bun", "ryu">>
LabelMiddle == <<"jung", "bun", "ryu">>
LabelMinor == <<"so", "bun", "ryu">>
LabelDescription == <<"gi", "neung", SPACE, "seol", "myeong">>

FEATURE_LIST_EXPECTED_HEADERS ==
    <<LabelMajor, LabelMiddle, LabelMinor, LabelDescription>>

FEATURE_LIST_START_ROW == 8

SchemaCols == 1..Len(FEATURE_LIST_EXPECTED_HEADERS)

\* the hierarchical columns, outer to inner: major, middle, minor category
HierCols == <<1, 2, 3>>

IsHierCol(c) == \E k \in 1..Len(HierCols) : HierCols[k] = c

-----------------------------------------------------------------------------
(* Worksheet: a grid of cell texts (the empty text is an empty or absent   *)
(* cell) and a set of merge regions <<c0, r0, c1, r1>>                     *)

SheetCols == 1..5
SheetRowCount == FEATURE_LIST_START_ROW + MaxRecords
SheetRowNums == 1..SheetRowCount

\* the well-known address <<row, column>> of the project overview text
OverviewCell == <<4, 2>>

RowValues(sheet, r) == [c \in SheetCols |-> sheet.cells[<<r, c>>]]

RowsMeet(m, r0, r1) == m[2] <= r1 /\ r0 <= m[4]
ColsMeetHier(m) == \E c \in m[1]..m[3] : IsHierCol(c)
RegionCells(m) == {<<r, c>> : r \in m[2]..m[4], c \in m[1]..m[3]}

-----------------------------------------------------------------------------
(* 4.2 Header Resolver, as populate uses it on the target worksheet *)

SetMin(S) == CHOOSE x \in S : \A y \in S : x <= y
SetMax(S) == CHOOSE x \in S : \A y \in S : x >= y

\* the first header-like row among rows r..limit, 0 when there is none
RECURSIVE FirstHeaderRow(_, _, _)
FirstHeaderRow(sheet, r, limit) ==
    IF r > limit THEN 0
    ELSE IF looks_like_header_row(RowValues(sheet, r), FEATURE_LIST_EXPECTED_HEADERS)
         THEN r
         ELSE FirstHeaderRow(sheet, r + 1, limit)

StartRowAfter(header_row) ==
    IF header_row # 0 THEN header_row + 1 ELSE FEATURE_LIST_START_ROW

ResolveStartRow(sheet) ==
    StartRowAfter(FirstHeaderRow(sheet, 1, Min(2 * FEATURE_LIST_START_ROW, SheetRowCount)))

-----------------------------------------------------------------------------
(* 4.3 Tabular Data Model: CSV text is a sequence of lines, a line is a    *)
(* sequence of fields; a field holding QUOTE is an unbalanced quote         *)

QUOTE == "\""

CsvMalformed(csv) ==
    \E i \in 1..Len(csv) : \E j \in 1..Len(csv[i]) :
        \E k \in 1..Len(csv[i][j]) : csv[i][j][k] = QUOTE

\* position of the schema label in the CSV header line, 0 when absent
CsvColumn(header, label) ==
    IF \E j \in 1..Len(header) : header[j] = label
    THEN SetMin({j \in 1..Len(header) : header[j] = label})
    ELSE 0

CsvRecord(header, line) ==
    [c \in SchemaCols |->
        LET j == CsvColumn(header, FEATURE_LIST_EXPECTED_HEADERS[c])
        IN  IF j > 0 /\ j <= Len(line) THEN line[j] ELSE <<>>]

RecordIsEmpty(rec) == \A c \in SchemaCols : rec[c] = <<>>

ParseCsv(csv) ==
    IF csv = <<>> THEN <<>>
    ELSE SelectSeq([i \in 1..(Len(csv) - 1) |-> CsvRecord(csv[1], csv[i + 1])],
                   LAMBDA rec : ~RecordIsEmpty(rec))

-----------------------------------------------------------------------------
(* 4.4 Merge-Aware Cell Writer *)

\* mutant: a change in a more significant column does not split the groups
StartsGroup_OwnColumnOnly(recs, k, i) ==
    i = 1 \/ recs[i][HierCols[k]] # recs[i - 1][HierCols[k]]

\* record i starts a new merge group of the k-th hierarchical column
RECURSIVE StartsGroup(_, _, _)
StartsGroup(recs, k, i) ==
    \/ i = 1
    \/ recs[i][HierCols[k]] # recs[i - 1][HierCols[k]]
    \/ k > 1 /\ StartsGroup(recs, k - 1, i)

\* last record of the group that record i starts
GroupEnd(recs, k, i) ==
    SetMax({j \in i..Len(recs) : \A x \in (i + 1)..j : ~StartsGroup(recs, k, x)})

MergeGroups(recs, k) ==
    {<<i, GroupEnd(recs, k, i)>> : i \in {x \in 1..Len(recs) : StartsGroup(recs, k, x)}}

NewMergeRegions(recs, start) ==
    UNION {{<<HierCols[k], start + g[1] - 1, HierCols[k], start + g[2] - 1>> :
                g \in {x \in MergeGroups(recs, k) : x[2] > x[1]}} :
           k \in 1..Len(HierCols)}

\* last row of the block a previous populate left on the worksheet
OldBlockEnd(sheet, start) ==
    LET used == {r \in start..SheetRowCount :
                    \E c \in SchemaCols : sheet.cells[<<r, c>>] # <<>>}
    IN  IF used = {} THEN start - 1 ELSE SetMax(used)

\* mutant: the write block ends with the last new record
WriteBlockEnd_NewRowsOnly(sheet, recs, start) == start + Len(recs) - 1

WriteBlockEnd(sheet, recs, start) ==
    Max(start + Len(recs) - 1, OldBlockEnd(sheet, start))

\* mutant: only the regions lying wholly inside the write block are removed
StaleRegions_Contained(sheet, start, last) ==
    {m \in sheet.merges : ColsMeetHier(m) /\ start <= m[2] /\ m[4] <= last}

\* mutant: the regions of every column of the write block are removed
StaleRegions_AnyColumn(sheet, start, last) ==
    {m \in sheet.merges : RowsMeet(m, start, last)}

\* region replacement policy: the regions populate removes, for the write
\* block start..last
StaleRegions(sheet, start, last) ==
    {m \in sheet.merges : ColsMeetHier(m) /\ RowsMeet(m, start, last)}

\* mutant: the value is repeated in every cell of a merge group
BlockCellValue_Repeated(recs, start, r, c) ==
    IF r - start + 1 > Len(recs) THEN <<>> ELSE recs[r - start + 1][c]

BlockCellValue(recs, start, r, c) ==
    LET i == r - start + 1
    IN  IF i > Len(recs) THEN <<>>
        ELSE IF \E k \in 1..Len(HierCols) :
                    HierCols[k] = c /\ ~StartsGroup(recs, k, i)
             THEN <<>>
             ELSE recs[i][c]

WriteOverview(cells, overview) ==
    IF overview = None THEN cells
    ELSE [cells EXCEPT ![OverviewCell] = overview]

WriteBlock(sheet, recs, overview, start, last) ==
    [cells |-> WriteOverview(
                  [a \in DOMAIN sheet.cells |->
                      IF a[1] \in start..last /\ a[2] \in SchemaCols
                      THEN BlockCellValue(recs, start, a[1], a[2])
                      ELSE sheet.cells[a]],
                  overview),
     merges |-> (sheet.merges \ StaleRegions(sheet, start, last))
                    \cup NewMergeRegions(recs, start)]

PopulateFrom(sheet, recs, overview, start) ==
    WriteBlock(sheet, recs, overview, start, WriteBlockEnd(sheet, recs, start))

-----------------------------------------------------------------------------
(* 4.5 Archive Rewriter: the container is an ordered sequence of parts *)

SheetPartName == "xl/worksheets/sheet1.xml"

\* mutant: the rewritten part is appended after the copied parts
ReplaceParts_Appended(container, name, content) ==
    SelectSeq(container, LAMBDA part : part.name # name)
        \o <<[name |-> name, content |-> content]>>

ReplaceParts(container, name, content) ==
    [i \in DOMAIN container |->
        IF container[i].name = name
        THEN [name |-> name, content |-> content]
        ELSE container[i]]

PartContent(container, name) ==
    LET i == CHOOSE x \in DOMAIN container : container[x].name = name
    IN  container[i].content

\* start is the header resolution of the workbook's worksheet,
\* ResolveStartRow(PartContent(workbook, SheetPartName)): it depends on the
\* workbook alone and the operations evaluate it once per stored workbook
populate_feature_list(workbook, start, csv, overview) ==
    ReplaceParts(workbook, SheetPartName,
                 PopulateFrom(PartContent(workbook, SheetPartName),
                              ParseCsv(csv), overview, start))

extract_feature_list_overview(workbook) ==
    PartContent(workbook, SheetPartName).cells[OverviewCell]

-----------------------------------------------------------------------------
(* Service layer: feature_lists.py and service.py *)

populate_workbook(workbook_bytes, start, csv_text, project_overview) ==
    populate_feature_list(workbook_bytes, start, csv_text, project_overview)

\* mutant: the fields are not trimmed
CsvLineOfRow_Untrimmed(row) ==
    <<CellText(row.majorCategory), CellText(row.middleCategory),
      CellText(row.minorCategory), CellText(row.featureDescription)>>

\* str(value or "").strip() of one row of the request
CsvLineOfRow(row) ==
    <<Strip(CellText(row.majorCategory)), Strip(CellText(row.middleCategory)),
      Strip(CellText(row.minorCategory)), Strip(CellText(row.featureDescription))>>

LineIsEmpty(line) == \A j \in 1..Len(line) : line[j] = <<>>

build_feature_list_csv(rows) ==
    <<FEATURE_LIST_EXPECTED_HEADERS>>
        \o SelectSeq([i \in 1..Len(rows) |-> CsvLineOfRow(rows[i])],
                     LAMBDA line : ~LineIsEmpty(line))

\* mutant: an empty overview text is treated like a missing one
OverviewValue_Falsy(project_overview) ==
    IF project_overview # None /\ project_overview # <<>>
    THEN project_overview ELSE None

\* str(project_overview or "") if project_overview is not None else None
OverviewValue(project_overview) ==
    IF project_overview # None THEN project_overview ELSE None

CurrentSheet == PartContent(stored, SheetPartName)

\* update_file stores the populated workbook; records, overviewArg, startRow
\* and oldEnd keep what the operation was given and the block it found
Populated(updated, start, csv, project_overview) ==
    /\ stored' = updated
    /\ records' = ParseCsv(csv)
    /\ overviewArg' = project_overview
    /\ startRow' = start
    /\ oldEnd' = OldBlockEnd(CurrentSheet, start)
    /\ httpStatus' = 200

apply_csv_to_spreadsheet(start, csv_text, project_overview) ==
    IF CsvMalformed(csv_text)
    THEN /\ httpStatus' = 422
         /\ UNCHANGED <<stored, records, overviewArg, startRow, oldEnd>>
    ELSE Populated(populate_workbook(stored, start, csv_text,
                                     OverviewValue(project_overview)),
                   start, csv_text, project_overview)

update_feature_list_rows(start, rows, project_overview) ==
    Populated(populate_workbook(stored, start, build_feature_list_csv(rows),
                                project_overview),
              start, build_feature_list_csv(rows), project_overview)

-----------------------------------------------------------------------------
(* Inputs *)

tA == <<"A">>
tB == <<"B">>
tDesc == <<"d">>
tBlank == <<SPACE>>
tOverview == <<"p">>
tPadded == <<SPACE, "p", NEWLINE>>

ApiRow(a, b, c, d) ==
    [majorCategory |-> a, middleCategory |-> b, minorCategory |-> c,
     featureDescription |-> d]

ApiRows ==
    {ApiRow(tA, tA, <<>>, tDesc), ApiRow(<<SPACE, "A">>, tB, None, tDesc),
     ApiRow(tBlank, None, <<>>, <<>>)}

CsvLines ==
    {<<tA, tA, tA, tDesc>>, <<tA, tA, tB, tDesc>>, <<tB, tA, tB, tDesc>>}

CsvTexts(n) ==
    {<<FEATURE_LIST_EXPECTED_HEADERS>> \o body : body \in SeqsUpTo(CsvLines, n)}
        \cup {<<>>, <<FEATURE_LIST_EXPECTED_HEADERS, <<tA, <<QUOTE, "d">>>>>>}

OverviewTexts == {<<>>, tOverview, tPadded}

-----------------------------------------------------------------------------
(* The template workbook of a project: title and instruction merges above  *)
(* the header row, a block left by an earlier populate, merges in columns  *)
(* that are not hierarchical                                                *)

TemplateCells ==
    [a \in SheetRowNums \X SheetCols |->
        CASE a = <<1, 1>> -> <<"t">>
          [] a = OverviewCell -> <<"o">>
          [] a = <<5, 1>> -> <<"i">>
          [] a[1] = 7 /\ a[2] \in SchemaCols -> FEATURE_LIST_EXPECTED_HEADERS[a[2]]
          [] a = <<7, 5>> -> <<"n">>
          [] a \in {<<8, 1>>, <<8, 2>>} -> tB
          [] a \in {<<8, 4>>, <<9, 4>>} -> tDesc
          [] OTHER -> <<>>]

TemplateMerges ==
    {<<1, 1, 5, 1>>, <<1, 5, 1, 6>>, <<1, 8, 1, 9>>, <<2, 8, 2, 10>>,
     <<4, 9, 4, 10>>, <<5, 8, 5, 9>>}

TemplateSheet == [cells |-> TemplateCells, merges |-> TemplateMerges]

OtherSheet ==
    [cells |-> [a \in {<<1, 1>>, <<8, 1>>} |-> <<"x">>], merges |-> {<<1, 8, 1, 9>>}]

TemplateWorkbook ==
    <<[name |-> "[Content_Types].xml", content |-> <<60, 84>>],
      [name |-> "xl/workbook.xml", content |-> <<60, 119>>],
      [name |-> "xl/styles.xml", content |-> <<60, 115>>],
      [name |-> "xl/theme/theme1.xml", content |-> <<60, 97>>],
      [name |-> "xl/sharedStrings.xml", content |-> <<60, 115, 115>>],
      [name |-> SheetPartName, content |-> TemplateSheet],
      [name |-> "xl/worksheets/sheet2.xml", content |-> OtherSheet]>>

NotParsed == [done |-> FALSE]
NoCall == [fn |-> "none", done |-> FALSE]

Init ==
    /\ stored = TemplateWorkbook
    /\ records = <<>>
    /\ overviewArg = None
    /\ startRow = 0
    /\ oldEnd = 0
    /\ httpStatus = 0
    /\ sheetRows = <<>>
    /\ parsed = NotParsed
    /\ call = NoCall
    /\ EnvIdle

ApplyCsv(csv_texts, overviews) ==
    /\ \E start \in {ResolveStartRow(CurrentSheet)} :
       \E csv_text \in csv_texts : \E project_overview \in overviews :
           apply_csv_to_spreadsheet(start, csv_text, project_overview)
    /\ UNCHANGED <<parseVars, call, envVars>>

UpdateRows(row_lists, overviews) ==
    /\ \E start \in {ResolveStartRow(CurrentSheet)} :
       \E rows \in row_lists : \E project_overview \in overviews :
           update_feature_list_rows(start, rows, project_overview)
    /\ UNCHANGED <<parseVars, call, envVars>>

\* Spec: every CSV up to MaxRecords records, every row list up to MaxUpdateRows
ApplyCsvToSpreadsheet == ApplyCsv(CsvTexts(MaxRecords), {None})
UpdateFeatureListRows == UpdateRows(SeqsUpTo(ApiRows, MaxUpdateRows), {tOverview})

Next == ApplyCsvToSpreadsheet \/ UpdateFeatureListRows

Spec == Init /\ [][Next]_vars

\* SpecOverview: every overview text, with up to MaxOverviewRecords records
ApplyCsvWithOverview ==
    ApplyCsv(CsvTexts(MaxOverviewRecords), OverviewTexts \cup {None})
UpdateRowsWithOverview ==
    UpdateRows(SeqsUpTo(ApiRows, MaxOverviewRecords), OverviewTexts)

NextOverview == ApplyCsvWithOverview \/ UpdateRowsWithOverview

SpecOverview == Init /\ [][NextOverview]_vars

-----------------------------------------------------------------------------
(* naming.py: name variants, used to match a header cell to a schema label *)

Digits == {"0", "1", "2", "3", "4", "5", "6", "7", "8", "9"}

RECURSIVE DropDigits(_)
DropDigits(s) ==
    IF s # <<>> /\ Head(s) \in Digits THEN DropDigits(Tail(s)) ELSE s

\* s matches \d+(?:[._\-]\d+)* entirely
RECURSIVE IsNumberGroups(_)
IsNumberGroups(s) ==
    /\ s # <<>>
    /\ Head(s) \in Digits
    /\ \/ DropDigits(s) = <<>>
       \/ /\ Head(DropDigits(s)) \in {".", "_", "-"}
          /\ IsNumberGroups(Tail(DropDigits(s)))

\* s matches v\s*\d+(?:[._\-]\d+)*$ from its first character
IsVersionTail(s) == s # <<>> /\ Head(s) = "v" /\ IsNumberGroups(LStrip(Tail(s)))

strip_drive_extension(value) ==
    IF \E i \in 1..Len(value) : value[i] = "."
    THEN SubSeq(value, 1, SetMax({i \in 1..Len(value) : value[i] = "."}) - 1)
    ELSE value

strip_drive_version_suffix(value) ==
    LET at == {i \in 1..Len(value) : IsVersionTail(SubSeq(value, i, Len(value)))}
    IN  Strip(IF at = {} THEN value ELSE SubSeq(value, 1, SetMin(at) - 1))

\* lines 40-51: the normalized form, the stem and their squashed forms
StemVariants(normalized, stem) ==
    {normalized} \cup ({squash_drive_text(normalized)} \ {<<>>})
        \cup (IF stem # <<>> /\ stem # normalized
              THEN {stem} \cup ({squash_drive_text(stem)} \ {<<>>}) ELSE {})

\* lines 53-58
VariantsOf(normalized, stem, versionless) ==
    IF versionless # <<>> /\ versionless \notin StemVariants(normalized, stem)
    THEN StemVariants(normalized, stem)
             \cup {versionless} \cup ({squash_drive_text(versionless)} \ {<<>>})
    ELSE StemVariants(normalized, stem)

\* mutant: the short keys are kept
drive_name_variants_Unfiltered(value) ==
    LET normalized == normalize_drive_text(value)
        stem == strip_drive_extension(normalized)
        versionless == strip_drive_version_suffix(stem)
    IN  IF normalized = <<>> THEN {}
        ELSE VariantsOf(normalized, stem, versionless)

drive_name_variants(value) ==
    LET normalized == normalize_drive_text(value)
        stem == strip_drive_extension(normalized)
        versionless == strip_drive_version_suffix(stem)
    IN  IF normalized = <<>> THEN {}
        ELSE {v \in VariantsOf(normalized, stem, versionless) : Len(v) >= 2}

drive_name_matches(value, expected) ==
    drive_name_variants(value) \cap drive_name_variants(expected) # {}

\* the index of the first schema label the header cell text matches by its
\* variants (4.2 "Column mapping"), 0 when it matches none
match_feature_list_header(text) ==
    LET hits == {j \in 1..Len(FEATURE_LIST_EXPECTED_HEADERS) :
                    drive_name_matches(text, FEATURE_LIST_EXPECTED_HEADERS[j])}
    IN  IF hits = {} THEN 0 ELSE SetMin(hits)

\* line 103, for every cell of the header row: matched, 0 for a cell that is
\* None or matches no label
MatchedLabels(header_row_values) ==
    [c \in 1..Len(header_row_values) |->
        IF header_row_values[c] = None THEN 0
        ELSE match_feature_list_header(header_row_values[c])]

-----------------------------------------------------------------------------
(* feature_lists.py: parse_feature_list_workbook.  A worksheet is the      *)
(* sequence of its rows as iter_rows(values_only=True) yields them; rows   *)
(* and columns count from 1, so column_map holds Python's index plus one   *)

HeaderCount == Len(FEATURE_LIST_EXPECTED_HEADERS)

\* lines 71-78: a non-empty value in one of the first len(headers) columns
HasValues(row_values) ==
    \E c \in 1..Min(HeaderCount, Len(row_values)) :
        row_values[c] # None /\ Strip(row_values[c]) # <<>>

\* mutant: the scan does not stop at the first header-like row
RECURSIVE ScanRows_LastHeader(_, _, _, _)
ScanRows_LastHeader(rows, idx, first_data_row_index, header_row_index) ==
    IF idx > Len(rows)
    THEN [header_row_index |-> header_row_index,
          first_data_row_index |-> first_data_row_index]
    ELSE LET header_match == looks_like_header_row(rows[idx], FEATURE_LIST_EXPECTED_HEADERS)
             first == IF HasValues(rows[idx]) /\ ~header_match
                         /\ first_data_row_index = 0
                      THEN idx ELSE first_data_row_index
             header == IF header_match THEN idx ELSE header_row_index
         IN  IF idx >= FEATURE_LIST_START_ROW * 2 /\ first # 0
             THEN [header_row_index |-> header, first_data_row_index |-> first]
             ELSE ScanRows_LastHeader(rows, idx + 1, first, header)

ScanRows_NoBreak(rows, idx, first_data_row_index) ==
    ScanRows_LastHeader(rows, idx, first_data_row_index, 0)

\* lines 65-91: the scan for the header row, from row idx on
RECURSIVE ScanRows(_, _, _)
ScanRows(rows, idx, first_data_row_index) ==
    IF idx > Len(rows)
    THEN [header_row_index |-> 0, first_data_row_index |-> first_data_row_index]
    ELSE LET header_match == looks_like_header_row(rows[idx], FEATURE_LIST_EXPECTED_HEADERS)
             first == IF HasValues(rows[idx]) /\ ~header_match
                         /\ first_data_row_index = 0
                      THEN idx ELSE first_data_row_index
         IN  IF header_match
             THEN [header_row_index |-> idx, first_data_row_index |-> first]
             ELSE IF idx >= FEATURE_LIST_START_ROW * 2 /\ first # 0
                  THEN [header_row_index |-> 0, first_data_row_index |-> first]
                  ELSE ScanRows(rows, idx + 1, first)

\* mutant: without a header row the start row is always the default
StartRowOf_DefaultOnly(scan) ==
    IF scan.header_row_index # 0 THEN scan.header_row_index + 1
    ELSE FEATURE_LIST_START_ROW

\* lines 93-96
StartRowOf(scan) ==
    IF scan.header_row_index # 0 THEN scan.header_row_index + 1
    ELSE IF scan.first_data_row_index # 0 THEN Max(1, scan.first_data_row_index)
    ELSE FEATURE_LIST_START_ROW

\* lines 100-105: the header cells that enter column_map, first match wins
\* mutant: the last cell that matched wins
DiscoveredColumn_Rightmost(matched, j) ==
    LET found == {c \in 1..Len(matched) : matched[c] = j}
    IN  IF found = {} THEN 0 ELSE SetMax(found)

DiscoveredColumn(matched, j) ==
    LET found == {c \in 1..Len(matched) : matched[c] = j}
    IN  IF found = {} THEN 0 ELSE SetMin(found)

\* lines 98-116: column_map, from schema label index to column; matched holds
\* the label each cell of the header row matched
ColumnMap(matched) ==
    [j \in 1..HeaderCount |->
        IF DiscoveredColumn(matched, j) # 0 THEN DiscoveredColumn(matched, j) ELSE j]

\* lines 99-113: headers after the header row was read
DisplayHeaders(header_row_values, matched) ==
    [j \in 1..HeaderCount |->
        IF DiscoveredColumn(matched, j) # 0
        THEN Strip(header_row_values[DiscoveredColumn(matched, j)])
        ELSE FEATURE_LIST_EXPECTED_HEADERS[j]]

\* column_map.get(header_name): column_map is keyed by the schema labels
ColumnMapGet(column_map, header_name) ==
    LET keys == {j \in 1..HeaderCount : FEATURE_LIST_EXPECTED_HEADERS[j] = header_name}
    IN  IF keys = {} THEN 0 ELSE column_map[SetMin(keys)]

\* lines 128-140: row_data, by position in headers
RowData(row_values, headers, column_map) ==
    [j \in 1..Len(headers) |->
        LET column_index == ColumnMapGet(column_map, headers[j])
        IN  IF column_index # 0 /\ column_index <= Len(row_values)
               /\ row_values[column_index] # None
            THEN Strip(row_values[column_index])
            ELSE <<>>]

\* row_data.get(name, ""): row_data is keyed by the texts of headers
RowDataGet(row_data, headers, name) ==
    LET keys == {j \in 1..Len(headers) : headers[j] = name}
    IN  IF keys = {} THEN <<>> ELSE row_data[SetMax(keys)]

LabelOverview == <<"gi", "neung", SPACE, "gae", "yo">>

\* lines 145-154
ExtractedRow(row_data, headers, row) ==
    [majorCategory |-> RowDataGet(row_data, headers, LabelMajor),
     middleCategory |-> RowDataGet(row_data, headers, LabelMiddle),
     minorCategory |-> RowDataGet(row_data, headers, LabelMinor),
     featureDescription |->
        IF RowDataGet(row_data, headers, LabelDescription) # <<>>
        THEN RowDataGet(row_data, headers, LabelDescription)
        ELSE RowDataGet(row_data, headers, LabelOverview),
     row |-> row]

\* lines 118-154: the records of the rows from row r on; row is the worksheet
\* row a record was taken from (not part of the returned dict)
RECURSIVE ExtractRows(_, _, _, _)
ExtractRows(rows, r, headers, column_map) ==
    IF r > Len(rows) THEN <<>>
    ELSE IF looks_like_header_row(rows[r], headers)
              \/ \A j \in 1..Len(headers) : RowData(rows[r], headers, column_map)[j] = <<>>
         THEN ExtractRows(rows, r + 1, headers, column_map)
         ELSE <<ExtractedRow(RowData(rows[r], headers, column_map), headers, r)>>
                  \o ExtractRows(rows, r + 1, headers, column_map)

\* what parse_feature_list_workbook returns (context and rows), with the
\* header row index and column_map it resolved
ParseResult(rows, scan, matched, headers, column_map) ==
    [done |-> TRUE,
     header_row_index |-> scan.header_row_index,
     matched |-> matched,
     startRow |-> StartRowOf(scan),
     headers |-> headers,
     column_map |-> column_map,
     rows |-> ExtractRows(rows, Max(1, StartRowOf(scan)), headers, column_map)]

\* the result of parsing the worksheet is result; header_row_values is the
\* empty tuple when no header row was found (line 98: `if header_row_values`)
parse_feature_list_workbook(rows, result) ==
    \E scan \in {ScanRows(rows, 1, 0)} :
    \E header_row_values \in
          {IF scan.header_row_index # 0 THEN rows[scan.header_row_index] ELSE <<>>} :
    \E matched \in {MatchedLabels(header_row_values)} :
    \E headers \in {IF header_row_values # <<>>
                    THEN DisplayHeaders(header_row_values, matched)
                    ELSE FEATURE_LIST_EXPECTED_HEADERS} :
    \E column_map \in {ColumnMap(matched)} :
        result = ParseResult(rows, scan, matched, headers, column_map)

-----------------------------------------------------------------------------
(* Worksheets read by parse_feature_list_workbook: blank rows followed by  *)
(* up to MaxFilledRows rows, each a header-like row or a data row           *)

hMajorSpaced == <<"dae", SPACE, "bun", "ryu">>
hMinorPadded == <<SPACE, "so", "bun", "ryu", SPACE>>
hMajorNote == <<SPACE, "dae", "bun", "ryu", SPACE, "(", "pil", "su", ")">>
hMiddleNote == <<"jung", "bun", "ryu", NEWLINE, "hang", "mok">>
hMinorNote == <<"so", "bun", "ryu", "-", "ye", "si">>
hDetail == <<"sang", "se", SPACE, "seol", "myeong">>

BlankRow == <<None, None, None, None, None>>
HeaderExact == <<LabelMajor, LabelMiddle, LabelMinor, LabelDescription, None>>
HeaderCosmetic == <<hMajorSpaced, LabelMiddle, hMinorPadded, LabelDescription, None>>
HeaderShifted == <<<<"n", "o">>, LabelMajor, LabelMiddle, LabelMinor, LabelDescription>>
HeaderNoisy == <<hMajorNote, hMiddleNote, hMinorNote, hDetail, None>>
HeaderWeak == <<LabelMajor, <<>>, <<"gi", "ta">>, <<>>, <<>>>>
HeaderHalf == <<LabelMajor, LabelMiddle, <<"gi", "ta">>, <<>>, None>>
DataRowFull == <<<<SPACE, "A">>, tB, <<"c">>, tDesc, <<"e">>>>
DataRowSparse == <<tB, None, <<>>, <<"d", SPACE>>, None>>

RowKinds ==
    {BlankRow, HeaderExact, HeaderCosmetic, HeaderShifted, HeaderNoisy, HeaderWeak,
     HeaderHalf, DataRowFull, DataRowSparse}

\* numbers of blank rows above the first filled row
LeadingRows == {0, 6, 14, 15, 16}

\* an empty worksheet still yields its one empty row
Worksheet(lead, body) ==
    IF lead = 0 /\ body = <<>> THEN <<BlankRow>>
    ELSE [i \in 1..lead |-> BlankRow] \o body

Worksheets ==
    {Worksheet(lead, body) : lead \in LeadingRows, body \in SeqsUpTo(RowKinds, MaxFilledRows)}

InitParse ==
    /\ stored = TemplateWorkbook
    /\ records = <<>>
    /\ overviewArg = None
    /\ startRow = 0
    /\ oldEnd = 0
    /\ httpStatus = 0
    /\ sheetRows \in Worksheets
    /\ parsed = NotParsed
    /\ call = NoCall
    /\ EnvIdle

\* get_feature_list_rows: the worksheet is parsed
GetFeatureListRows ==
    /\ ~parsed.done
    /\ parse_feature_list_workbook(sheetRows, parsed')
    /\ UNCHANGED <<sheetRows, stored, records, overviewArg, startRow, oldEnd, httpStatus, call,
                   envVars>>

NextParse == GetFeatureListRows

SpecParse == InitParse /\ [][NextParse]_vars

\* header rows for the column map: labels in any order, repeated, respelled
\* or missing, above one data row
ColumnCells ==
    {None, LabelMajor, hMajorSpaced, LabelMiddle, LabelMinor, LabelDescription, <<"n", "o">>}

ColumnHeaderRows ==
    {<<c1, c2, c3, c4, c5>> : c1 \in ColumnCells, c2 \in ColumnCells, c3 \in ColumnCells,
                              c4 \in ColumnCells, c5 \in {None, LabelDescription}}

InitColumns ==
    /\ stored = TemplateWorkbook
    /\ records = <<>>
    /\ overviewArg = None
    /\ startRow = 0
    /\ oldEnd = 0
    /\ httpStatus = 0
    /\ \E header \in ColumnHeaderRows : sheetRows = <<header, DataRowFull>>
    /\ parsed = NotParsed
    /\ call = NoCall
    /\ EnvIdle

SpecColumns == InitColumns /\ [][NextParse]_vars

-----------------------------------------------------------------------------
(* Calls of looks_like_header_row: rows of up to MaxHeaderCells cells against *)
(* lists of expected labels of several lengths                               *)

tOther == <<"gi", "ta">>

HeaderCellTexts == {None, <<>>, LabelMajor, hMajorNote, LabelMiddle, hMinorNote, tOther}

ExpectedLists ==
    {FEATURE_LIST_EXPECTED_HEADERS,
     <<LabelMajor, LabelMiddle>>,
     <<LabelMajor>>,
     <<LabelMajor, <<SPACE>>, LabelMinor>>,
     <<>>}

\* the state outside the call
Idle ==
    /\ stored = TemplateWorkbook
    /\ records = <<>>
    /\ overviewArg = None
    /\ startRow = 0
    /\ oldEnd = 0
    /\ httpStatus = 0
    /\ sheetRows = <<>>
    /\ parsed = NotParsed
    /\ EnvIdle

InitHeader ==
    /\ Idle
    /\ \E values \in SeqsUpTo(HeaderCellTexts, MaxHeaderCells) :
       \E expected \in ExpectedLists :
           call = [fn |-> "looks_like_header_row", done |-> FALSE,
                   values |-> values, expected |-> expected]

LooksLikeHeaderRow ==
    /\ call.fn = "looks_like_header_row"
    /\ ~call.done
    /\ call' = [call EXCEPT !.done = TRUE] @@
                   [result |-> looks_like_header_row(call.values, call.expected)]
    /\ UNCHANGED <<popVars, parseVars, envVars>>

NextHeader == LooksLikeHeaderRow

SpecHeader == InitHeader /\ [][NextHeader]_vars

-----------------------------------------------------------------------------
(* One request to the service: get_feature_list_rows on a worksheet, or    *)
(* update_feature_list_rows with a list of rows on the project's template  *)

InitRequest ==
    \/ InitParse
    \/ /\ Idle
       /\ \E rows \in SeqsUpTo(ApiRows, MaxUpdateRows) :
              call = [fn |-> "update_feature_list_rows", done |-> FALSE, rows |-> rows]

GetRowsRequest ==
    /\ call.fn = "none"
    /\ sheetRows # <<>>
    /\ GetFeatureListRows

\* csv is the text build_feature_list_csv returned (service.py line 589)
UpdateRowsRequest ==
    /\ call.fn = "update_feature_list_rows"
    /\ ~call.done
    /\ \E start \in {ResolveStartRow(CurrentSheet)} :
           update_feature_list_rows(start, call.rows, <<>>)
    /\ call' = [call EXCEPT !.done = TRUE] @@ [csv |-> build_feature_list_csv(call.rows)]
    /\ UNCHANGED <<parseVars, envVars>>

NextRequest == GetRowsRequest \/ UpdateRowsRequest

SpecRequest == InitRequest /\ [][NextRequest]_vars

-----------------------------------------------------------------------------
(* apply_csv_to_spreadsheet and update_feature_list_rows step by step: the  *)
(* populate step, then update_file.  call holds the operation: its          *)
(* arguments, the workbook stored when it began (before), the bytes         *)
(* populate returned (updated) and the number of update_file calls          *)

\* a stored workbook without the feature list worksheet
BrokenWorkbook == SelectSeq(TemplateWorkbook, LAMBDA part : part.name # SheetPartName)

HasSheetPart(workbook) ==
    \E i \in DOMAIN workbook : workbook[i].name = SheetPartName

\* what populate can do: return the new bytes, raise ValueError (the CSV
\* text does not parse) or raise (the container is not usable: the kind of
\* that error is either)
PopulateOutcomes(workbook, csv_text) ==
    IF ~HasSheetPart(workbook) THEN {"ValueError", "Exception"}
    ELSE IF CsvMalformed(csv_text) THEN {"ValueError"}
    ELSE {"ok"}

\* except ValueError: 422; except Exception: 500
StatusOf(outcome) == IF outcome = "ValueError" THEN 422 ELSE 500

\* mutant: update_file is called whatever populate did
NextStep_AlwaysUpload(outcome) == "update_file"

\* a raise leaves the operation, a return goes on to update_file
NextStep(outcome) == IF outcome = "ok" THEN "update_file" ELSE "done"

InitWrites ==
    /\ stored \in {TemplateWorkbook, BrokenWorkbook}
    /\ records = <<>>
    /\ overviewArg = None
    /\ startRow = 0
    /\ oldEnd = 0
    /\ httpStatus = 0
    /\ sheetRows = <<>>
    /\ parsed = NotParsed
    /\ call = NoCall
    /\ EnvIdle

Operation(fn, csv_text, project_overview) ==
    [fn |-> fn, done |-> FALSE, pc |-> "populate", csv_text |-> csv_text,
     project_overview |-> project_overview, before |-> stored,
     updated |-> <<>>, outcome |-> "none", update_file_calls |-> 0]

BeginApplyCsv ==
    /\ call.fn = "none" \/ call.done
    /\ \E csv_text \in CsvTexts(MaxOverviewRecords) :
           call' = Operation("apply_csv_to_spreadsheet", csv_text, OverviewValue(None))
    /\ httpStatus' = 0
    /\ UNCHANGED <<stored, records, overviewArg, startRow, oldEnd, parseVars, envVars>>

BeginUpdateRows ==
    /\ call.fn = "none" \/ call.done
    /\ \E rows \in SeqsUpTo(ApiRows, MaxUpdateRows) :
           call' = Operation("update_feature_list_rows", build_feature_list_csv(rows), <<>>)
    /\ httpStatus' = 0
    /\ UNCHANGED <<stored, records, overviewArg, startRow, oldEnd, parseVars, envVars>>

\* service.py lines 499-513 and 585-598: populate returns or raises
PopulateStep ==
    /\ call.fn # "none"
    /\ call.pc = "populate"
    /\ \E outcome \in PopulateOutcomes(stored, call.csv_text) :
           IF outcome = "ok"
           THEN /\ \E start \in {ResolveStartRow(CurrentSheet)} :
                      call' = [call EXCEPT
                                  !.pc = NextStep(outcome),
                                  !.outcome = outcome,
                                  !.updated = populate_workbook(stored, start, call.csv_text,
                                                                call.project_overview)]
                /\ UNCHANGED httpStatus
           ELSE /\ call' = [call EXCEPT !.pc = NextStep(outcome),
                                        !.outcome = outcome,
                                        !.done = NextStep(outcome) = "done"]
                /\ httpStatus' = StatusOf(outcome)
    /\ UNCHANGED <<stored, records, overviewArg, startRow, oldEnd, parseVars, envVars>>

\* service.py lines 515-521 and 600-606: update_file stores the bytes it is given
UpdateFileStep ==
    /\ call.fn # "none"
    /\ call.pc = "update_file"
    /\ stored' = call.updated
    /\ call' = [call EXCEPT !.pc = "done", !.done = TRUE,
                            !.update_file_calls = @ + 1]
    /\ httpStatus' = 200
    /\ UNCHANGED <<records, overviewArg, startRow, oldEnd, parseVars, envVars>>

NextWrites == BeginApplyCsv \/ BeginUpdateRows \/ PopulateStep \/ UpdateFileStep

SpecWrites == InitWrites /\ [][NextWrites]_vars

-----------------------------------------------------------------------------
(* ensure_drive_setup: the gs folder is found or created, the shared       *)
(* criteria file is found among the folder's listed files or uploaded, the *)
(* project folders are listed                                             *)

wCriteria == <<"gyeol", "ham", "pan", "dan", "gi", "jun", "pyo">>
wCriteriaSpaced == <<"gyeol", "ham", SPACE, "pan", "dan", SPACE, "gi", "jun", "pyo">>
wCriteriaHalf == <<"gyeol", "ham", SPACE, "pan", "dan", "gi", "jun", "pyo">>
wSecurity == <<"bo", "an", "seong", SPACE>>
wShared == <<"gong", "yu", SPACE>>
wXlsx == <<".", "x", "l", "s", "x">>
wVersion == <<SPACE, "v", "1", ".", "0">>

SHARED_CRITERIA_FILE_CANDIDATES ==
    <<wSecurity \o wCriteria \o wVersion \o wXlsx,
      wCriteria \o wVersion \o wXlsx,
      wCriteriaSpaced \o wVersion \o wXlsx,
      wCriteriaHalf \o wVersion \o wXlsx,
      wShared \o wCriteria \o wVersion \o wXlsx,
      wShared \o wCriteriaSpaced \o wVersion \o wXlsx>>

\* str.lower() on the Latin capitals of the file names
LowerChar(ch) ==
    CASE ch = "V" -> "v"
      [] ch = "X" -> "x"
      [] ch = "L" -> "l"
      [] ch = "S" -> "s"
      [] OTHER -> ch

EndsWith(s, suffix) ==
    Len(s) >= Len(suffix) /\ SubSeq(s, Len(s) - Len(suffix) + 1, Len(s)) = suffix

\* mutant: the name is not lower-cased
normalize_shared_criteria_name_CaseSensitive(name) ==
    LET base == Strip(name)
        stem == IF EndsWith(base, wXlsx) THEN SubSeq(base, 1, Len(base) - 5) ELSE base
    IN  SelectSeq(stem, LAMBDA ch : ~IsSpace(ch))

normalize_shared_criteria_name(name) ==
    LET base == Strip([i \in 1..Len(name) |-> LowerChar(name[i])])
        stem == IF EndsWith(base, wXlsx) THEN SubSeq(base, 1, Len(base) - 5) ELSE base
    IN  SelectSeq(stem, LAMBDA ch : ~IsSpace(ch))

SHARED_CRITERIA_NORMALIZED_NAMES ==
    {normalize_shared_criteria_name(SHARED_CRITERIA_FILE_CANDIDATES[i]) :
        i \in 1..Len(SHARED_CRITERIA_FILE_CANDIDATES)}

PREFERRED_SHARED_CRITERIA_FILE_NAME == SHARED_CRITERIA_FILE_CANDIDATES[1]

\* an entry of a listing: a dict with an id and a name (None: not a str), or
\* something that is not a dict
FileEntry(id, name) == [isDict |-> TRUE, id |-> id, name |-> name]
NotADict == [isDict |-> FALSE, id |-> "", name |-> None]

ListedEntries ==
    {FileEntry("c1", SHARED_CRITERIA_FILE_CANDIDATES[1]),
     FileEntry("c2", <<SPACE>> \o wCriteriaSpaced
                        \o <<SPACE, SPACE, "V", "1", ".", "0", ".", "X", "L", "S", "X", SPACE>>),
     FileEntry("f1", <<"gi", "neung", "ri", "seu", "teu">> \o wXlsx),
     FileEntry("f2", wCriteria \o <<SPACE, "v", "2", ".", "0">> \o wXlsx),
     FileEntry("f3", None),
     NotADict}

\* service.py lines 728-741: the entry found for the candidates
EntryMatches(entry) ==
    /\ entry.isDict
    /\ entry.name # None
    /\ normalize_shared_criteria_name(entry.name) \in SHARED_CRITERIA_NORMALIZED_NAMES

\* the first listed entry that matches, 0 when none does
FirstMatch(files) ==
    LET hits == {i \in 1..Len(files) : EntryMatches(files[i])}
    IN  IF hits = {} THEN 0 ELSE SetMin(hits)

UploadedEntry == FileEntry("new", PREFERRED_SHARED_CRITERIA_FILE_NAME)

InitSetup ==
    /\ stored = TemplateWorkbook
    /\ records = <<>>
    /\ overviewArg = None
    /\ startRow = 0
    /\ oldEnd = 0
    /\ httpStatus = 0
    /\ sheetRows = <<>>
    /\ parsed = NotParsed
    /\ call = [fn |-> "ensure_drive_setup", done |-> FALSE, pc |-> "find_root_folder",
               raised |-> FALSE, folderCreated |-> FALSE, created |-> FALSE,
               criteria |-> NotADict]
    /\ \/ drive = NoDrive
       \/ \E files \in SeqsUpTo(ListedEntries, MaxListedFiles) :
              drive = [folder |-> TRUE, files |-> files, uploads |-> <<>>]

\* service.py lines 304-309
FindOrCreateRootFolder ==
    /\ call.fn = "ensure_drive_setup"
    /\ call.pc = "find_root_folder"
    /\ call' = [call EXCEPT !.pc = "criteria", !.folderCreated = ~drive.folder]
    /\ drive' = [drive EXCEPT !.folder = TRUE]
    /\ UNCHANGED <<popVars, parseVars>>

\* service.py lines 701-760: the entry found is returned, or the template is
\* uploaded; upload_file returns the new entry or raises
EnsureSharedCriteriaFile ==
    /\ call.fn = "ensure_drive_setup"
    /\ call.pc = "criteria"
    /\ IF FirstMatch(drive.files) # 0
       THEN /\ call' = [call EXCEPT !.pc = "projects", !.created = FALSE,
                                    !.criteria = drive.files[FirstMatch(drive.files)]]
            /\ UNCHANGED drive
       ELSE \/ /\ drive' = [drive EXCEPT !.files = Append(@, UploadedEntry),
                                         !.uploads = Append(@, UploadedEntry.name)]
               /\ call' = [call EXCEPT !.pc = "projects", !.created = TRUE,
                                       !.criteria = UploadedEntry]
            \/ /\ drive' = [drive EXCEPT !.uploads = Append(@, UploadedEntry.name)]
               /\ call' = [call EXCEPT !.pc = "done", !.done = TRUE, !.raised = TRUE]
    /\ UNCHANGED <<popVars, parseVars>>

\* service.py lines 316-350: the project folders are listed and the result returned
ListChildFolders ==
    /\ call.fn = "ensure_drive_setup"
    /\ call.pc = "projects"
    /\ call' = [call EXCEPT !.pc = "done", !.done = TRUE]
    /\ UNCHANGED <<popVars, parseVars, drive>>

NextSetup == FindOrCreateRootFolder \/ EnsureSharedCriteriaFile \/ ListChildFolders

SpecSetup == InitSetup /\ [][NextSetup]_vars

-----------------------------------------------------------------------------
(* ensure_valid_tokens: the tokens are returned when they are not expired, *)
(* otherwise they are refreshed at the token endpoint and saved            *)

\* times are seconds on the clock of datetime.now
StoredTokens(access_token, refresh_token, expires_in, saved_at) ==
    [access_token |-> access_token, refresh_token |-> refresh_token,
     expires_in |-> expires_in, saved_at |-> saved_at]

TokenLifetimes == {0 - 1, 0, 1, 59, 60, 61, 70}
SavedAts == {0, 10}
RefreshTokens == {"refresh", ""}

\* mutant: without the minute of margin
is_token_expired_NoMargin(tokens, now) ==
    IF tokens.expires_in <= 0 THEN FALSE
    ELSE now >= tokens.saved_at + tokens.expires_in

\* client.py lines 61-67
is_token_expired(tokens, now) ==
    IF tokens.expires_in <= 0 THEN FALSE
    ELSE LET expires_at == tokens.saved_at + tokens.expires_in
         IN  now >= expires_at - 60

\* the answer of the token endpoint: an error, or a payload whose fields may
\* be missing
TokenResponses ==
    [is_error : BOOLEAN, access_token : {"<None>", "", "fresh"},
     refresh_token : {"<None>", "", "rotated", "rotated again"}, has_expires_in : BOOLEAN]

\* mutant: the provider's field alone
MergedRefreshToken_ProviderOnly(tokens, response) ==
    IF response.refresh_token = "<None>" THEN "" ELSE response.refresh_token

\* client.py line 95: payload.get("refresh_token") or tokens.refresh_token
MergedRefreshToken(tokens, response) ==
    IF response.refresh_token \in {"<None>", ""} THEN tokens.refresh_token
    ELSE response.refresh_token

\* client.py lines 93-106: the payload merged with the old tokens and saved
SavedTokens(tokens, response, now) ==
    StoredTokens(response.access_token,
                 MergedRefreshToken(tokens, response),
                 IF response.has_expires_in THEN 3600 ELSE tokens.expires_in,
                 now)

\* 0: returned; otherwise the status of the HTTPException
RefreshStatus(tokens, response) ==
    IF tokens.refresh_token = "" THEN 401
    ELSE IF response.is_error THEN 502
    ELSE IF response.access_token \in {"<None>", ""} THEN 502
    ELSE 0

InitTokens ==
    /\ stored = TemplateWorkbook
    /\ records = <<>>
    /\ overviewArg = None
    /\ startRow = 0
    /\ oldEnd = 0
    /\ httpStatus = 0
    /\ sheetRows = <<>>
    /\ parsed = NotParsed
    /\ EnvIdle
    /\ \E expires_in \in TokenLifetimes, saved_at \in SavedAts,
          refresh_token \in RefreshTokens, now \in 0..MaxNow :
          call = [fn |-> "ensure_valid_tokens", done |-> FALSE, pc |-> "check",
                  tokens |-> StoredTokens("initial", refresh_token, expires_in, saved_at),
                  now |-> now, refresh_calls |-> 0, saved |-> <<>>, raised |-> 0,
                  result |-> StoredTokens("", "", 0, 0)]

\* client.py lines 108-111
CheckExpiry ==
    /\ call.fn = "ensure_valid_tokens"
    /\ call.pc = "check"
    /\ IF is_token_expired(call.tokens, call.now)
       THEN call' = [call EXCEPT !.pc = "refresh"]
       ELSE call' = [call EXCEPT !.pc = "done", !.done = TRUE, !.result = call.tokens]
    /\ UNCHANGED <<popVars, parseVars, envVars>>

\* client.py lines 69-106, and the return of line 110
RefreshAccessToken ==
    /\ call.fn = "ensure_valid_tokens"
    /\ call.pc = "refresh"
    /\ \E response \in TokenResponses :
          \E status \in {RefreshStatus(call.tokens, response)} :
             IF status # 0
             THEN call' = [call EXCEPT !.pc = "done", !.done = TRUE, !.raised = status,
                                      !.refresh_calls = @ + 1]
             ELSE \E saved \in {SavedTokens(call.tokens, response, call.now)} :
                     call' = [call EXCEPT !.pc = "done", !.done = TRUE,
                                          !.refresh_calls = @ + 1,
                                          !.saved = Append(@, saved), !.result = saved]
    /\ UNCHANGED <<popVars, parseVars, envVars>>

NextTokens == CheckExpiry \/ RefreshAccessToken

\* refresh_access_token called again and again, each time with the tokens the
\* last successful call returned; every call is logged with what it was given,
\* whether it sent the request and what it handed to the token store
InitRefresh ==
    /\ stored = TemplateWorkbook
    /\ records = <<>>
    /\ overviewArg = None
    /\ startRow = 0
    /\ oldEnd = 0
    /\ httpStatus = 0
    /\ sheetRows = <<>>
    /\ parsed = NotParsed
    /\ EnvIdle
    /\ \E refresh_token \in RefreshTokens :
          call = [fn |-> "refresh_access_token", done |-> FALSE,
                  tokens |-> StoredTokens("initial", refresh_token, 3600, 0),
                  requests |-> 0, store |-> <<>>, log |-> <<>>]

RefreshLogEntry(tokens, sent, response, status) ==
    [previous |-> tokens.refresh_token, sent |-> sent, supplied |-> response.refresh_token,
     status |-> status, wrote |-> status = 0]

\* client.py lines 69-106, one call
RefreshCall ==
    /\ call.fn = "refresh_access_token"
    /\ Len(call.log) < MaxRefreshCalls
    /\ \E response \in TokenResponses :
          \E status \in {RefreshStatus(call.tokens, response)},
             sent \in {call.tokens.refresh_token # ""} :
             IF status # 0
             THEN call' = [call EXCEPT
                              !.requests = IF sent THEN @ + 1 ELSE @,
                              !.log = Append(@, RefreshLogEntry(call.tokens, sent, response,
                                                                status))]
             ELSE \E saved \in {SavedTokens(call.tokens, response, 0)} :
                     call' = [call EXCEPT
                                 !.requests = @ + 1,
                                 !.store = Append(@, saved),
                                 !.tokens = saved,
                                 !.log = Append(@, RefreshLogEntry(call.tokens, sent,
                                                                   response, status))]
    /\ UNCHANGED <<popVars, parseVars, envVars>>

NextRefresh == RefreshCall

SpecRefresh == InitRefresh /\ [][NextRefresh]_vars

SpecTokens == InitTokens /\ [][NextTokens]_vars

-----------------------------------------------------------------------------
(* ai_generation.py: generate_csv from its upload loop on.  A context is an *)
(* attachment: an image (sent inline, not uploaded) or a file, given by the  *)
(* user or built in                                                          *)

UploadContext(kind, builtin) == [kind |-> kind, builtin |-> builtin]

UserContexts == {UploadContext("file", FALSE), UploadContext("image", FALSE)}

\* lines 383-405: the attachments built into a menu, after the user's
BuiltinContexts == {<<>>, <<UploadContext("file", TRUE)>>}

InitGenerate ==
    /\ stored = TemplateWorkbook
    /\ records = <<>>
    /\ overviewArg = None
    /\ startRow = 0
    /\ oldEnd = 0
    /\ httpStatus = 0
    /\ sheetRows = <<>>
    /\ parsed = NotParsed
    /\ EnvIdle
    /\ \E uploads \in SeqsUpTo(UserContexts, MaxUploads), builtin \in BuiltinContexts :
          /\ uploads # <<>>
          /\ call = [fn |-> "generate_csv", done |-> FALSE, pc |-> "upload",
                     contexts |-> uploads \o builtin, index |-> 1,
                     cleanup_file_ids |-> <<>>, uploaded |-> <<>>, deletes |-> <<>>,
                     decided |-> 0, outcome |-> 0]

\* lines 281-298: one pass of the upload loop.  The file id of the file
\* uploaded for context i is i; the upload may raise, or answer without an id
UploadNext ==
    /\ call.fn = "generate_csv"
    /\ call.pc = "upload"
    /\ \E context \in {IF call.index <= Len(call.contexts)
                        THEN call.contexts[call.index] ELSE UploadContext("none", FALSE)} :
          CASE context.kind = "none" ->
                   call' = [call EXCEPT !.pc = "complete"]
            [] context.kind = "image" ->
                   call' = [call EXCEPT !.index = @ + 1]
            [] context.kind = "file" ->
                   \/ call' = [call EXCEPT
                                  !.index = @ + 1,
                                  !.uploaded = Append(@, [file_id |-> call.index,
                                                          builtin |-> context.builtin]),
                                  !.cleanup_file_ids = IF context.builtin THEN @
                                                       ELSE Append(@, call.index)]
                   \/ call' = [call EXCEPT !.pc = "finally", !.decided = 502]
    /\ UNCHANGED <<popVars, parseVars, envVars>>

\* lines 333-361: the completion is asked for: a CSV (200), an error of the
\* service, no text or no CSV in the answer (502)
CreateResponse ==
    /\ call.fn = "generate_csv"
    /\ call.pc = "complete"
    /\ \E status \in {200, 502} : call' = [call EXCEPT !.pc = "finally", !.decided = status]
    /\ UNCHANGED <<popVars, parseVars, envVars>>

\* mutant: a delete that fails ends the clean-up
AfterDelete_StopOnFailure(failed, position, file_ids) ==
    IF failed \/ position >= Len(file_ids) THEN "return" ELSE "finally"

\* lines 211-218: the loop goes on after a delete that raised
AfterDelete(failed, position, file_ids) ==
    IF position >= Len(file_ids) THEN "return" ELSE "finally"

\* lines 362-364 and 208-218: one files.delete of the finally block
DeleteNext ==
    /\ call.fn = "generate_csv"
    /\ call.pc = "finally"
    /\ call.cleanup_file_ids # <<>>
    /\ \E failed \in BOOLEAN, position \in {Len(call.deletes) + 1} :
          call' = [call EXCEPT
                      !.deletes = Append(@, [file_id |-> call.cleanup_file_ids[position],
                                             failed |-> failed]),
                      !.pc = AfterDelete(failed, position, call.cleanup_file_ids)]
    /\ UNCHANGED <<popVars, parseVars, envVars>>

\* the call returns or raises what was decided before the finally block
ReturnGenerated ==
    /\ call.fn = "generate_csv"
    /\ \/ call.pc = "return"
       \/ call.pc = "finally" /\ call.cleanup_file_ids = <<>>
    /\ call' = [call EXCEPT !.pc = "done", !.done = TRUE, !.outcome = call.decided]
    /\ UNCHANGED <<popVars, parseVars, envVars>>

NextGenerate == UploadNext \/ CreateResponse \/ DeleteNext \/ ReturnGenerated

SpecGenerate == InitGenerate /\ [][NextGenerate]_vars

-----------------------------------------------------------------------------
(* service.py: create_project called again and again for the same parent    *)
(* folder and the same project name.  A folder name is a stem and a number  *)
(* k: the stem alone for k = 1, "stem (k)" otherwise.  Drive answers a      *)
(* listing with the first pageSize folders in the order of their names.     *)

pageSize == 100

FolderName(stem, k) == [stem |-> stem, k |-> k]

\* orderBy name_natural: the other folders' stem "a" sorts before the project
\* name "p", equal stems by their number, equal names by age
StemRank(stem) == IF stem = "a" THEN 1 ELSE 2

ListedBefore(g, f) ==
    \/ StemRank(g.name.stem) < StemRank(f.name.stem)
    \/ g.name.stem = f.name.stem /\ g.name.k < f.name.k
    \/ g.name = f.name /\ g.id < f.id

\* client.py lines 387-418: one request, the first page of the answer
list_child_folders(folders) ==
    {f \in folders : Cardinality({g \in folders : ListedBefore(g, f)}) < pageSize}

\* service.py lines 392-396: the search for an unused name, from number k on
RECURSIVE UniqueName(_, _, _)
UniqueName(project_name, existing_names, k) ==
    IF FolderName(project_name, k) \in existing_names
    THEN UniqueName(project_name, existing_names, k + 1)
    ELSE FolderName(project_name, k)

\* the parent folder before the first call: some folders of other projects
\* and some folders that already have the project's name
OtherFolders(n) == {[id |-> i, name |-> FolderName("a", i), by_service |-> FALSE] : i \in 1..n}

NamesakeFolders(ks) ==
    {[id |-> pageSize + k, name |-> FolderName("p", k), by_service |-> FALSE] : k \in ks}

InitProjects ==
    /\ stored = TemplateWorkbook
    /\ records = <<>>
    /\ overviewArg = None
    /\ startRow = 0
    /\ oldEnd = 0
    /\ httpStatus = 0
    /\ sheetRows = <<>>
    /\ parsed = NotParsed
    /\ EnvIdle
    /\ \E n \in {0, 1, pageSize - 1, pageSize}, ks \in SUBSET {1, 2, 3} :
          call = [fn |-> "create_project", done |-> FALSE, pc |-> "list", calls |-> 0,
                  folders |-> OtherFolders(n) \cup NamesakeFolders(ks),
                  existing_names |-> {}, unique_name |-> FolderName("p", 1),
                  created |-> <<>>]

\* service.py lines 383-396: the siblings are listed and the name chosen
ListSiblings ==
    /\ call.fn = "create_project"
    /\ call.pc = "list"
    /\ call.calls < MaxProjects
    /\ \E existing_names \in {{f.name : f \in list_child_folders(call.folders)}} :
          call' = [call EXCEPT !.pc = "create", !.calls = @ + 1,
                               !.existing_names = existing_names,
                               !.unique_name = UniqueName("p", existing_names, 1)]
    /\ UNCHANGED <<popVars, parseVars, envVars>>

\* service.py lines 398-403: the folder is created, or the request fails
CreateChildFolder ==
    /\ call.fn = "create_project"
    /\ call.pc = "create"
    /\ \/ call' = [call EXCEPT
                      !.pc = "list",
                      !.folders = @ \cup {[id |-> 2 * pageSize + call.calls,
                                           name |-> call.unique_name, by_service |-> TRUE]},
                      !.created = Append(@, [name |-> call.unique_name,
                                             existing_names |-> call.existing_names])]
       \/ call' = [call EXCEPT !.pc = "list"]
    /\ UNCHANGED <<popVars, parseVars, envVars>>

NextProjects == ListSiblings \/ CreateChildFolder

SpecProjects == InitProjects /\ [][NextProjects]_vars

-----------------------------------------------------------------------------
(* prompt_store.py: PromptStore used by three threads, two calling           *)
(* update_prompt for different menus and one reading.  Dicts are objects of  *)
(* a heap and self._cache and the local `prompts` are references to them (0  *)
(* is None), so that a change made through one reference is seen through the *)
(* other.  A thread takes one step per access to the lock, the cache, the    *)
(* file or a shared dict.                                                    *)

Menus == {"m1", "m2"}

PromptTemplate(system, instruction) == [system |-> system, instruction |-> instruction]

\* no entry for the menu: prompts.get(menu_id) is None
NoPrompt == PromptTemplate(None, None)

DEFAULT_PROMPTS == [m \in Menus |-> PromptTemplate(<<"d", "s">>, <<"d", "i">>)]

NoPrompts == [m \in Menus |-> NoPrompt]

\* the prompts file before the store is used: missing, not JSON, an object
\* without usable entries, or an object with an entry
PromptFiles ==
    {[exists |-> FALSE, valid |-> FALSE, data |-> NoPrompts],
     [exists |-> TRUE, valid |-> FALSE, data |-> NoPrompts],
     [exists |-> TRUE, valid |-> TRUE, data |-> NoPrompts],
     [exists |-> TRUE, valid |-> TRUE,
      data |-> [NoPrompts EXCEPT !["m1"] = PromptTemplate(<<"o", "s">>, <<"o", "i">>)]]}

\* update_prompt lines 77-80
NormalizedPrompt(prompt) == PromptTemplate(Strip(prompt.system), Strip(prompt.instruction))

PromptThread(op, menu_id, prompt) ==
    [op |-> op, menu_id |-> menu_id, prompt |-> prompt, pc |-> "start", prompts |-> 0,
     before |-> NoPrompt, result |-> NoPrompt, listed |-> NoPrompts]

Updaters == {1, 2}
Readers == {3}

InitPrompts ==
    /\ stored = TemplateWorkbook
    /\ records = <<>>
    /\ overviewArg = None
    /\ startRow = 0
    /\ oldEnd = 0
    /\ httpStatus = 0
    /\ sheetRows = <<>>
    /\ parsed = NotParsed
    /\ EnvIdle
    /\ \E file \in PromptFiles, reader \in {PromptThread("get_prompt", "m1", NoPrompt),
                                             PromptThread("get_prompt", "m2", NoPrompt),
                                             PromptThread("list_prompts", "m1", NoPrompt)} :
          call = [fn |-> "prompt_store", done |-> FALSE, lock |-> 0, cache |-> 0,
                  heap |-> <<>>, file |-> file, default_inits |-> 0,
                  threads |->
                      <<PromptThread("update_prompt", "m1",
                                     PromptTemplate(<<SPACE, "s", "1">>, <<"i", "1", SPACE>>)),
                        PromptThread("update_prompt", "m2",
                                     PromptTemplate(<<"s", "2">>, <<NEWLINE, "i", "2">>)),
                        reader>>]

\* mutant: the lock excludes nobody
CanAcquire_Always(lock) == TRUE

\* threading.Lock: acquired only when free
CanAcquire(lock) == lock = 0

\* where a thread goes when _load(locked=True) has returned
AfterLoad(thread) == IF thread.op = "update_prompt" THEN "mutate" ELSE "unlock"

\* get_prompt, list_prompts: _load() without the lock, lines 95-96
ReaderStart(t) ==
    /\ t \in Readers
    /\ call.threads[t].pc = "start"
    /\ call' = IF call.cache # 0
               THEN [call EXCEPT !.threads[t].prompts = call.cache, !.threads[t].pc = "read"]
               ELSE [call EXCEPT !.threads[t].pc = "acquire"]

\* `with self._lock:` of update_prompt (line 82) and of _load (line 98)
AcquireLock(t) ==
    /\ \/ t \in Updaters /\ call.threads[t].pc = "start"
       \/ t \in Readers /\ call.threads[t].pc = "acquire"
    /\ CanAcquire(call.lock)
    /\ call' = [call EXCEPT !.lock = t, !.threads[t].pc = "load"]

\* _load(locked=True), lines 95-96 and 102-123: the cache, or the file read
\* into a new dict, or a copy of the defaults that becomes the cache
LoadPrompts(t) ==
    /\ call.threads[t].pc = "load"
    /\ call' =
          IF call.cache # 0
          THEN [call EXCEPT !.threads[t].prompts = call.cache,
                            !.threads[t].pc = AfterLoad(call.threads[t])]
          ELSE IF call.file.exists /\ call.file.valid /\ call.file.data # NoPrompts
          THEN [call EXCEPT !.heap = Append(@, call.file.data),
                            !.cache = Len(call.heap) + 1,
                            !.threads[t].prompts = Len(call.heap) + 1,
                            !.threads[t].pc = AfterLoad(call.threads[t])]
          ELSE [call EXCEPT !.heap = Append(@, DEFAULT_PROMPTS),
                            !.cache = Len(call.heap) + 1,
                            !.default_inits = @ + 1,
                            !.threads[t].prompts = Len(call.heap) + 1,
                            !.threads[t].pc = "load_save"]

\* the file after a write that failed: untouched when it could not be opened,
\* otherwise cut short
FailedWrites(file) == {file, [file EXCEPT !.exists = TRUE, !.valid = FALSE]}

\* _save, lines 128-130: the file is written, or the write raises and the
\* exception leaves the `with self._lock` block
WriteFile(t, at, next) ==
    /\ call.threads[t].pc = at
    /\ \/ call' = [call EXCEPT !.file = [exists |-> TRUE, valid |-> TRUE,
                                          data |-> call.heap[call.threads[t].prompts]],
                                !.threads[t].pc = next]
       \/ \E failed \in FailedWrites(call.file) :
             call' = [call EXCEPT !.file = failed, !.lock = 0,
                                  !.threads[t].pc = IF at = "save" THEN "raised"
                                                    ELSE "load_raised"]

\* _save, line 131: self._cache = prompts.copy()
CacheCopy(t, at, next) ==
    /\ call.threads[t].pc = at
    /\ call' = [call EXCEPT !.heap = Append(@, call.heap[call.threads[t].prompts]),
                            !.cache = Len(call.heap) + 1,
                            !.threads[t].pc = next]

\* _load lines 121-123: the defaults are saved
LoadSaveDefaults(t) == WriteFile(t, "load_save", "load_cache")

LoadCacheCopy(t) == CacheCopy(t, "load_cache", AfterLoad(call.threads[t]))

\* update_prompt line 84: prompts[menu_id] = normalized
MutatePrompts(t) ==
    /\ call.threads[t].pc = "mutate"
    /\ call' = [call EXCEPT
                   !.threads[t].before = call.heap[call.threads[t].prompts][call.threads[t].menu_id],
                   !.heap[call.threads[t].prompts][call.threads[t].menu_id] =
                       NormalizedPrompt(call.threads[t].prompt),
                   !.threads[t].pc = "save"]

\* update_prompt line 85
SaveFile(t) == WriteFile(t, "save", "cache")

SaveCacheCopy(t) == CacheCopy(t, "cache", "return")

\* update_prompt line 86, and the end of the `with` block
ReturnUpdate(t) ==
    /\ call.threads[t].pc = "return"
    /\ call' = [call EXCEPT
                   !.threads[t].result = call.heap[call.threads[t].prompts][call.threads[t].menu_id],
                   !.lock = 0,
                   !.threads[t].pc = "done"]

\* _load line 99: the reader leaves the `with` block
ReaderUnlock(t) ==
    /\ call.threads[t].pc = "unlock"
    /\ call' = [call EXCEPT !.lock = 0, !.threads[t].pc = "read"]

\* get_prompt lines 68-72, list_prompts lines 91-92
ReadPrompts(t) ==
    /\ call.threads[t].pc = "read"
    /\ call' = IF call.threads[t].op = "get_prompt"
               THEN [call EXCEPT
                        !.threads[t].result =
                            call.heap[call.threads[t].prompts][call.threads[t].menu_id],
                        !.threads[t].pc = "done"]
               ELSE [call EXCEPT !.threads[t].listed = call.heap[call.threads[t].prompts],
                                 !.threads[t].pc = "done"]

ThreadStep(t) ==
    \/ ReaderStart(t)
    \/ AcquireLock(t)
    \/ LoadPrompts(t)
    \/ LoadSaveDefaults(t)
    \/ LoadCacheCopy(t)
    \/ MutatePrompts(t)
    \/ SaveFile(t)
    \/ SaveCacheCopy(t)
    \/ ReturnUpdate(t)
    \/ ReaderUnlock(t)
    \/ ReadPrompts(t)

NextPrompts ==
    /\ call.fn = "prompt_store"
    /\ \E t \in Updaters \cup Readers : ThreadStep(t)
    /\ UNCHANGED <<popVars, parseVars, envVars>>

SpecPrompts == InitPrompts /\ [][NextPrompts]_vars

-----------------------------------------------------------------------------
(* routes.py: google_login and google_callback share the module-level set  *)
(* state_store.  secrets.token_urlsafe(32) is taken to return a value it    *)
(* has not returned before: the values issued are 1, 2, ...; 0 stands for a *)
(* missing state parameter and MaxLogins + 1 for a value never issued       *)

CallbackParams ==
    [error : BOOLEAN, code : BOOLEAN, state : 0..(MaxLogins + 1)]

\* mutant: the state stays in the store
StateStoreAfterCheck_Kept(state_store, state) == state_store

\* routes.py line 87: state_store.discard(state)
StateStoreAfterCheck(state_store, state) == state_store \ {state}

\* routes.py lines 68-85: what the callback does before it awaits anything
CallbackVerdict(params, state_store) ==
    IF params.error THEN "error_redirect"
    ELSE IF ~params.code \/ params.state = 0 THEN "400_missing"
    ELSE IF params.state \notin state_store THEN "400_invalid"
    ELSE "passed"

InitOAuth ==
    /\ stored = TemplateWorkbook
    /\ records = <<>>
    /\ overviewArg = None
    /\ startRow = 0
    /\ oldEnd = 0
    /\ httpStatus = 0
    /\ sheetRows = <<>>
    /\ parsed = NotParsed
    /\ EnvIdle
    /\ call = [fn |-> "oauth", done |-> FALSE, state_store |-> {}, issued |-> 0,
               callbacks |-> <<>>, exchanges |-> <<>>]

\* routes.py lines 41-59
GoogleLogin ==
    /\ call.fn = "oauth"
    /\ call.issued < MaxLogins
    /\ call' = [call EXCEPT !.issued = @ + 1, !.state_store = @ \cup {call.issued + 1}]
    /\ UNCHANGED <<popVars, parseVars, envVars>>

\* routes.py lines 62-87: a callback request up to its first await; each
\* request is kept with the number of states issued when it came
GoogleCallback ==
    /\ call.fn = "oauth"
    /\ Len(call.callbacks) < MaxCallbacks
    /\ \E params \in CallbackParams :
          \E verdict \in {CallbackVerdict(params, call.state_store)} :
             call' = [call EXCEPT
                         !.callbacks = Append(@, [state |-> params.state, pc |-> verdict,
                                                  issued |-> call.issued]),
                         !.state_store = IF verdict = "passed"
                                         THEN StateStoreAfterCheck(@, params.state) ELSE @]
    /\ UNCHANGED <<popVars, parseVars, envVars>>

\* routes.py lines 89-98: the token exchange request of a callback that passed
TokenExchange ==
    /\ call.fn = "oauth"
    /\ \E i \in 1..Len(call.callbacks) :
          /\ call.callbacks[i].pc = "passed"
          /\ call' = [call EXCEPT !.callbacks[i].pc = "exchanged",
                                  !.exchanges = Append(@, i)]
    /\ UNCHANGED <<popVars, parseVars, envVars>>

NextOAuth == GoogleLogin \/ GoogleCallback \/ TokenExchange

SpecOAuth == InitOAuth /\ [][NextOAuth]_vars

-----------------------------------------------------------------------------
(* client.py: the operations that send a request with the access token and *)
(* try once more after a refresh                                           *)

ClientOperations ==
    {"request", "upload_file", "download_file", "update_file", "get_file_metadata"}

\* the answer of Drive: its status, and whether its body is as expected (a
\* dict, with an id where the operation asks for one)
DriveResponses == [status_code : {200, 401, 403, 404, 500}, well_formed : BOOLEAN]

is_error(response) == response.status_code >= 400

\* what one pass of the loop over range(2) does with the response
\* request: lines 140-153
RequestOutcome(attempt, response) ==
    IF response.status_code # 401
    THEN IF is_error(response) THEN "raise_502" ELSE "return"
    ELSE IF attempt = 0 THEN "refresh" ELSE "raise_401"

\* upload_file: lines 272-288; update_file: lines 368-384
UploadOutcome(attempt, response) ==
    IF response.status_code = 401 /\ attempt = 0 THEN "refresh"
    ELSE IF is_error(response) THEN "raise_502"
    ELSE IF ~response.well_formed THEN "raise_502"
    ELSE "return"

\* download_file: lines 318-329
DownloadOutcome(attempt, response) ==
    IF response.status_code = 401 /\ attempt = 0 THEN "refresh"
    ELSE IF is_error(response) THEN "raise_502"
    ELSE "return"

\* get_file_metadata: lines 479-500
MetadataOutcome(attempt, response) ==
    IF response.status_code = 401 /\ attempt = 0 THEN "refresh"
    ELSE IF response.status_code = 404 THEN "return"
    ELSE IF is_error(response) THEN "raise_502"
    ELSE IF ~response.well_formed THEN "raise_502"
    ELSE "return"

AttemptOutcome(fn, attempt, response) ==
    CASE fn = "request" -> RequestOutcome(attempt, response)
      [] fn \in {"upload_file", "update_file"} -> UploadOutcome(attempt, response)
      [] fn = "download_file" -> DownloadOutcome(attempt, response)
      [] fn = "get_file_metadata" -> MetadataOutcome(attempt, response)

\* mutant: the tokens of the first attempt are kept
TokensAfterRefresh_Old(active_tokens, refreshed) == active_tokens

\* active_tokens = await self.refresh_access_token(active_tokens)
TokensAfterRefresh(active_tokens, refreshed) == refreshed

InitClient ==
    /\ stored = TemplateWorkbook
    /\ records = <<>>
    /\ overviewArg = None
    /\ startRow = 0
    /\ oldEnd = 0
    /\ httpStatus = 0
    /\ sheetRows = <<>>
    /\ parsed = NotParsed
    /\ EnvIdle
    /\ \E fn \in ClientOperations, refresh_token \in RefreshTokens :
          call = [fn |-> fn, done |-> FALSE, pc |-> "send", attempt |-> 0,
                  tokens |-> StoredTokens("initial", refresh_token, 3600, 0),
                  active_tokens |-> StoredTokens("initial", refresh_token, 3600, 0),
                  attempts |-> <<>>, refresh_calls |-> 0, saved |-> <<>>, raised |-> 0,
                  result |-> StoredTokens("", "", 0, 0)]

\* one pass of the loop: the request is sent with the active access token and
\* the response decides
SendAttempt ==
    /\ call.fn \in ClientOperations
    /\ call.pc = "send"
    /\ \E response \in DriveResponses :
          \E outcome \in {AttemptOutcome(call.fn, call.attempt, response)},
             sent \in {Append(call.attempts,
                              [authorization |-> call.active_tokens.access_token,
                               status_code |-> response.status_code])} :
             CASE outcome = "refresh" ->
                      call' = [call EXCEPT !.attempts = sent, !.pc = "refresh"]
               [] outcome = "return" ->
                      call' = [call EXCEPT !.attempts = sent, !.pc = "done", !.done = TRUE,
                                           !.result = call.active_tokens]
               [] outcome = "raise_502" ->
                      call' = [call EXCEPT !.attempts = sent, !.pc = "done", !.done = TRUE,
                                           !.raised = 502]
               [] outcome = "raise_401" ->
                      call' = [call EXCEPT !.attempts = sent, !.pc = "done", !.done = TRUE,
                                           !.raised = 401]
    /\ UNCHANGED <<popVars, parseVars, envVars>>

\* refresh_access_token awaited inside the loop, then `continue`
RefreshAndRetry ==
    /\ call.fn \in ClientOperations
    /\ call.pc = "refresh"
    /\ \E response \in TokenResponses :
          \E status \in {RefreshStatus(call.active_tokens, response)} :
             IF status # 0
             THEN call' = [call EXCEPT !.pc = "done", !.done = TRUE, !.raised = status,
                                      !.refresh_calls = @ + 1]
             ELSE \E saved \in {SavedTokens(call.active_tokens, response, 0)} :
                     call' = [call EXCEPT !.pc = "send", !.attempt = @ + 1,
                                          !.refresh_calls = @ + 1,
                                          !.saved = Append(@, saved),
                                          !.active_tokens =
                                              TokensAfterRefresh(call.active_tokens, saved)]
    /\ UNCHANGED <<popVars, parseVars, envVars>>

NextClient == SendAttempt \/ RefreshAndRetry

SpecClient == InitClient /\ [][NextClient]_vars

-----------------------------------------------------------------------------
(* drive_name_matches applied to two names *)

NameTexts ==
    {<<>>,
     <<SPACE>>,
     <<"a">>,
     <<"A", SPACE>>,
     <<"a", "b">>,
     <<"A", "B">>,
     <<"a", SPACE, "b">>,
     <<"-", "a">>,
     <<"a", ".", "x">>,
     <<"a", "b", ".", "x">>,
     <<"a", SPACE, "v", "1">>,
     <<"a", "b", SPACE, "v", "1", ".", "0">>}

InitNames ==
    /\ stored = TemplateWorkbook
    /\ records = <<>>
    /\ overviewArg = None
    /\ startRow = 0
    /\ oldEnd = 0
    /\ httpStatus = 0
    /\ sheetRows = <<>>
    /\ parsed = NotParsed
    /\ EnvIdle
    /\ \E value \in NameTexts, expected \in NameTexts :
          call = [fn |-> "drive_name_matches", done |-> FALSE,
                  value |-> value, expected |-> expected]

\* naming.py lines 63-68, with the two variant tuples it computes and the
\* answer for the arguments exchanged
DriveNameMatches ==
    /\ call.fn = "drive_name_matches"
    /\ ~call.done
    /\ call' = [call EXCEPT !.done = TRUE]
                  @@ [actual_tokens |-> drive_name_variants(call.value),
                      expected_tokens |-> drive_name_variants(call.expected),
                      result |-> drive_name_matches(call.value, call.expected),
                      exchanged |-> drive_name_matches(call.expected, call.value)]
    /\ UNCHANGED <<popVars, parseVars, envVars>>

NextNames == DriveNameMatches

SpecNames == InitNames /\ [][NextNames]_vars

-----------------------------------------------------------------------------
(* Properties of populate *)

HasPopulated == startRow # 0
Sheet == PartContent(stored, SheetPartName)
NewEnd == startRow + Len(records) - 1
RowOf(i) == startRow + i - 1

\* column c has one merge region holding both row r - 1 and row r
Joined(sheet, c, r) ==
    \E m \in sheet.merges : m[1] = c /\ m[3] = c /\ m[2] <= r - 1 /\ r <= m[4]

\* records i - 1 and i agree on the hierarchical columns 1..k
PrefixAgrees(recs, k, i) ==
    \A x \in 1..k : recs[i][HierCols[x]] = recs[i - 1][HierCols[x]]

\* the maximal runs of consecutive records agreeing on hierarchical columns 1..k
MaximalRuns(recs, k) ==
    {g \in (1..Len(recs)) \X (1..Len(recs)) :
        /\ g[1] <= g[2]
        /\ \A x \in (g[1] + 1)..g[2] : PrefixAgrees(recs, k, x)
        /\ g[1] = 1 \/ ~PrefixAgrees(recs, k, g[1])
        /\ g[2] = Len(recs) \/ ~PrefixAgrees(recs, k, g[2] + 1)}

\* C1: in the populated worksheet, a record starts a new merge group of a
\* hierarchical column exactly when its value in that column differs from the
\* previous record's or a more significant column starts a group there; so two
\* consecutive rows share a region of column k exactly when their records agree
\* on the hierarchical columns 1..k.
C1_MergeGrouping ==
    HasPopulated =>
        \A k \in 1..Len(HierCols) : \A i \in 2..Len(records) :
            /\ ~Joined(Sheet, HierCols[k], RowOf(i))
                  <=> \/ records[i][HierCols[k]] # records[i - 1][HierCols[k]]
                      \/ k > 1 /\ ~Joined(Sheet, HierCols[k - 1], RowOf(i))
            /\ Joined(Sheet, HierCols[k], RowOf(i)) <=> PrefixAgrees(records, k, i)

\* two rows merged in the major and in the minor column, then a record whose
\* major value changes while its minor value repeats: the minor column splits
C1_Witness ==
    /\ HasPopulated
    /\ Len(records) = 3
    /\ <<1, startRow, 1, startRow + 1>> \in Sheet.merges
    /\ <<3, startRow, 3, startRow + 1>> \in Sheet.merges
    /\ records[3][3] = records[2][3]
    /\ records[3][1] # records[2][1]
    /\ ~Joined(Sheet, 3, RowOf(3))

HierRegionsMeeting(sheet, c, r0, r1) ==
    {m \in sheet.merges : m[1] <= c /\ c <= m[3] /\ RowsMeet(m, r0, r1)}

\* C2: every merge group of a hierarchical column spanning several rows has its
\* value in the top cell, empty cells below it and exactly one region, which
\* covers precisely its rows; a one-row group has its value in its cell and no
\* region.
C2_RegionsAndCells ==
    HasPopulated =>
        \A k \in 1..Len(HierCols) : \A g \in MaximalRuns(records, k) :
            LET c == HierCols[k]
                r0 == RowOf(g[1])
                r1 == RowOf(g[2])
            IN  /\ Sheet.cells[<<r0, c>>] = records[g[1]][c]
                /\ \A r \in (r0 + 1)..r1 : Sheet.cells[<<r, c>>] = <<>>
                /\ HierRegionsMeeting(Sheet, c, r0, r1)
                       = IF r1 > r0 THEN {<<c, r0, c, r1>>} ELSE {}

C2_Witness ==
    /\ HasPopulated
    /\ \E k \in 1..Len(HierCols) :
          /\ \E g \in MaximalRuns(records, k) :
                g[2] > g[1] /\ records[g[1]][HierCols[k]] # <<>>
          /\ \E g \in MaximalRuns(records, k) : g[2] = g[1]

\* C3: when the last populate wrote fewer rows than the block it found, every
\* row of the old block beyond the last new record is empty in the schema
\* columns and no region of a hierarchical column meets it.
C3_ShrinkClears ==
    HasPopulated =>
        \A r \in (NewEnd + 1)..oldEnd :
            /\ \A c \in SchemaCols : Sheet.cells[<<r, c>>] = <<>>
            /\ \A m \in Sheet.merges : ~(ColsMeetHier(m) /\ RowsMeet(m, r, r))

\* three records were populated, then one
C3_Witness ==
    /\ httpStatus = 200
    /\ oldEnd = startRow + 2
    /\ Len(records) = 1

\* C4: no two merge regions of the worksheet share a cell, and every region
\* of a hierarchical column in the data block lies in a single column.
C4_NoOverlap ==
    /\ \A m1, m2 \in Sheet.merges :
          m1 # m2 => RegionCells(m1) \cap RegionCells(m2) = {}
    /\ HasPopulated =>
          \A m \in Sheet.merges :
              ColsMeetHier(m) /\ m[4] >= startRow => m[1] = m[3]

\* the block grew and holds regions in two hierarchical columns
C4_Witness ==
    /\ HasPopulated
    /\ oldEnd < NewEnd
    /\ \E m1, m2 \in Sheet.merges :
          /\ m1[2] >= startRow /\ m2[2] >= startRow
          /\ IsHierCol(m1[1]) /\ IsHierCol(m2[1]) /\ m1[1] # m2[1]

WriteBlockOfStep == startRow'..Max(startRow' + Len(records') - 1, oldEnd')

\* C5: a populate keeps every region that is outside the hierarchical columns
\* or outside the rows of the write block, and the regions it adds are
\* single-column regions of hierarchical columns inside the write block.
C5_RegionFrame ==
    [][ /\ \A m \in Sheet.merges :
              \/ stored' = stored
              \/ ColsMeetHier(m)
                    /\ \E r \in WriteBlockOfStep : RowsMeet(m, r, r)
              \/ m \in Sheet'.merges
        /\ \A m \in Sheet'.merges \ Sheet.merges :
              /\ m[1] = m[3] /\ IsHierCol(m[1])
              /\ m[2] \in WriteBlockOfStep /\ m[4] \in WriteBlockOfStep ]_vars

\* the title merge, the instruction merge above the header and the merges of
\* the description and note columns are kept; the old block's regions of the
\* hierarchical columns are replaced
C5_Witness ==
    /\ HasPopulated
    /\ {<<1, 1, 5, 1>>, <<1, 5, 1, 6>>, <<4, 9, 4, 10>>, <<5, 8, 5, 9>>}
           \subseteq Sheet.merges
    /\ <<2, 8, 2, 10>> \notin Sheet.merges
    /\ <<1, startRow, 1, startRow + 1>> \in Sheet.merges

\* C6: a populate keeps the number, the names and the order of the container's
\* parts, and the content of every part but the worksheet it targets.
C6_BytePreservation ==
    [][ /\ Len(stored') = Len(stored)
        /\ \A i \in 1..Len(stored) :
              /\ stored'[i].name = stored[i].name
              /\ stored[i].name # SheetPartName => stored'[i] = stored[i] ]_vars

C6_Witness ==
    /\ HasPopulated
    /\ Sheet # TemplateSheet
    /\ \A i \in 1..Len(stored) :
          stored[i].name # SheetPartName => stored[i] = TemplateWorkbook[i]

-----------------------------------------------------------------------------
(* Properties of parse_feature_list_workbook *)

HeaderRowValues == sheetRows[parsed.header_row_index]

\* the text of schema label j in a returned record
RecordField(rec, j) ==
    CASE j = 1 -> rec.majorCategory
      [] j = 2 -> rec.middleCategory
      [] j = 3 -> rec.minorCategory
      [] j = 4 -> rec.featureDescription

\* a header cell matched label j with a text that is not the label itself
CosmeticHeader(j) ==
    /\ DiscoveredColumn(parsed.matched, j) # 0
    /\ HeaderRowValues[DiscoveredColumn(parsed.matched, j)]
           # FEATURE_LIST_EXPECTED_HEADERS[j]

RecordsFollowHeader ==
    \A i \in 1..Len(parsed.rows) : \A j \in 1..HeaderCount :
        DiscoveredColumn(parsed.matched, j) # 0 =>
            RecordField(parsed.rows[i], j)
                = Strip(CellText(sheetRows[parsed.rows[i].row]
                                          [DiscoveredColumn(parsed.matched, j)]))

\* C9: when the recognised header row holds a cell that matches its schema
\* label without being character-identical to it, every returned record
\* carries, for each label a header cell matched, the trimmed text of the data
\* row's cell in that header cell's column.
C9_CosmeticHeaderRecords ==
    (parsed.done /\ parsed.header_row_index # 0
        /\ \E j \in 1..HeaderCount : CosmeticHeader(j))
    => RecordsFollowHeader

\* C10: when one of the first 16 rows looks like a header, the topmost such row
\* h is the header row, the start row is h + 1 and no record comes from a row at
\* or above h.
C10_HeaderSelection ==
    LET found == {r \in 1..Min(2 * FEATURE_LIST_START_ROW, Len(sheetRows)) :
                     looks_like_header_row(sheetRows[r], FEATURE_LIST_EXPECTED_HEADERS)}
    IN  parsed.done /\ found # {} =>
            /\ parsed.header_row_index = SetMin(found)
            /\ parsed.startRow = SetMin(found) + 1
            /\ \A i \in 1..Len(parsed.rows) : parsed.rows[i].row > SetMin(found)

\* rows above the header row, a second header-like row below it within the
\* first 16 rows, and a record
C10_Witness ==
    /\ parsed.done
    /\ parsed.header_row_index > 1
    /\ \E r \in (parsed.header_row_index + 1)..Min(2 * FEATURE_LIST_START_ROW, Len(sheetRows)) :
          looks_like_header_row(sheetRows[r], FEATURE_LIST_EXPECTED_HEADERS)
    /\ Len(parsed.rows) > 0

-----------------------------------------------------------------------------
(* Properties of the fallback when no header row is recognised *)

\* the number of schema labels the row's cells match (naming.py, matches)
RowMatchCount(values) ==
    IF values = <<>> THEN 0
    ELSE HeaderMatchCount(NormalizedTexts(values),
                          SquashedTexts(NormalizedTexts(values)),
                          NormalizedTexts(FEATURE_LIST_EXPECTED_HEADERS),
                          SquashedTexts(NormalizedTexts(FEATURE_LIST_EXPECTED_HEADERS)))

NoHeaderLikeRow ==
    \A r \in 1..Len(sheetRows) :
        ~looks_like_header_row(sheetRows[r], FEATURE_LIST_EXPECTED_HEADERS)

\* some row carries exactly two of the four labels
HasHalfHeader ==
    \E r \in 1..Len(sheetRows) : RowMatchCount(sheetRows[r]) = HeaderCount - 2

\* C11: when the intended header row keeps only two of its four labels and no
\* row is header-like, the reported start row is the default start row 8.
C11_FallbackStartRow ==
    (parsed.done /\ HasHalfHeader /\ NoHeaderLikeRow)
        => parsed.startRow = FEATURE_LIST_START_ROW

\* the rows with a non-empty value in the expected column positions
RowsWithValues == {r \in 1..Len(sheetRows) : HasValues(sheetRows[r])}

PositionalDefaults == [j \in 1..HeaderCount |-> j]

\* C12: for a worksheet without a header-like row the parse returns a result
\* in which every schema label is mapped to its positional default column and
\* the start row is the first row with a non-empty value in the expected
\* column positions, or the default start row 8 when there is no such row.
C12_NeverFails ==
    (parsed.done /\ NoHeaderLikeRow) =>
        /\ parsed.header_row_index = 0
        /\ parsed.column_map = PositionalDefaults
        /\ parsed.startRow = IF RowsWithValues = {} THEN FEATURE_LIST_START_ROW
                              ELSE SetMin(RowsWithValues)

\* no header-like row, empty rows above the first row with values, a record
C12_Witness ==
    /\ parsed.done
    /\ NoHeaderLikeRow
    /\ RowsWithValues # {}
    /\ parsed.startRow > 1
    /\ parsed.startRow # FEATURE_LIST_START_ROW
    /\ Len(parsed.rows) > 0

-----------------------------------------------------------------------------
(* Properties of looks_like_header_row *)

\* the cell is not empty and its text matches the label
CellRecognises(cell, label) ==
    LET actual == normalize_drive_text(CellText(cell))
        wanted == normalize_drive_text(label)
    IN  /\ ~(wanted = <<>> /\ squash_drive_text(wanted) = <<>>)
        /\ HeaderCellMatches(actual, squash_drive_text(actual),
                             wanted, squash_drive_text(wanted))

\* the expected labels matched by at least one cell, each once
LabelsRecognised(values, expected) ==
    {j \in 1..Len(expected) :
        \E i \in 1..Len(values) : CellRecognises(values[i], expected[j])}

\* C13: looks_like_header_row is true exactly when the number of expected
\* labels matched by at least one non-empty cell is at least
\* max(1, |expected| - 1); with four labels, three recognised labels make a
\* header and two or fewer do not.
C13_HeaderThreshold ==
    (call.fn = "looks_like_header_row" /\ call.done) =>
        LET n == Cardinality(LabelsRecognised(call.values, call.expected))
        IN  /\ call.result <=> n >= Max(1, Len(call.expected) - 1)
            /\ Len(call.expected) = 4 => (call.result <=> n >= 3)

\* four expected labels, three of them recognised, one by a noisy cell
C13_Witness ==
    /\ call.fn = "looks_like_header_row"
    /\ call.done
    /\ call.expected = FEATURE_LIST_EXPECTED_HEADERS
    /\ Cardinality(LabelsRecognised(call.values, call.expected)) = 3
    /\ \E i \in 1..Len(call.values) : call.values[i] = hMinorNote
    /\ call.result

-----------------------------------------------------------------------------
(* Properties of empty rows *)

FieldsOfRow(row) ==
    <<row.majorCategory, row.middleCategory, row.minorCategory, row.featureDescription>>

\* every field of the request row is empty after trimming
RowIsBlank(row) ==
    \A j \in 1..4 : Strip(CellText(FieldsOfRow(row)[j])) = <<>>

FilledRows(rows) == SelectSeq(rows, LAMBDA row : ~RowIsBlank(row))

\* every mapped cell of worksheet row r is empty after trimming
MappedCellsEmpty(r) ==
    \A j \in 1..HeaderCount :
        \/ parsed.column_map[j] > Len(sheetRows[r])
        \/ Strip(CellText(sheetRows[r][parsed.column_map[j]])) = <<>>

\* C14: a request row whose fields are all empty after trimming gives no CSV
\* line and no populated record; a worksheet row whose mapped cells are all
\* empty gives no parsed record.
C14_EmptyRowDrop ==
    /\ (call.fn = "update_feature_list_rows" /\ call.done) =>
          /\ Len(call.csv) = 1 + Len(FilledRows(call.rows))
          /\ \A i \in 2..Len(call.csv) : \E j \in 1..4 : call.csv[i][j] # <<>>
          /\ Len(records) = Len(FilledRows(call.rows))
    /\ parsed.done =>
          \A r \in 1..Len(sheetRows) :
              MappedCellsEmpty(r) =>
                  \A i \in 1..Len(parsed.rows) : parsed.rows[i].row # r

\* a blank request row between filled ones was left out
C14_Witness ==
    /\ call.fn = "update_feature_list_rows"
    /\ call.done
    /\ Len(call.rows) = 2
    /\ RowIsBlank(call.rows[1])
    /\ ~RowIsBlank(call.rows[2])
    /\ Len(records) = 1

\* C15: every worksheet row at or below the start row with a non-empty value
\* in a mapped column yields exactly one record, and the records are in
\* worksheet row order.
C15_NoRowDropped ==
    parsed.done =>
        /\ \A r \in Max(1, parsed.startRow)..Len(sheetRows) :
               ~MappedCellsEmpty(r) =>
                   Cardinality({i \in 1..Len(parsed.rows) : parsed.rows[i].row = r}) = 1
        /\ \A i \in 1..(Len(parsed.rows) - 1) :
               parsed.rows[i].row < parsed.rows[i + 1].row

-----------------------------------------------------------------------------
(* Properties of the writes to the remote store *)

InOperation == call.fn \in {"apply_csv_to_spreadsheet", "update_feature_list_rows"}

-----------------------------------------------------------------------------
(* Properties of ensure_drive_setup *)

NoSpaces(s) == SelectSeq(s, LAMBDA ch : ch \notin {SPACE, NBSP, NEWLINE})

\* the name lower-cased, its final '.xlsx' removed, its whitespace removed
CriteriaKey(name) ==
    LET lower == [i \in 1..Len(name) |-> LowerChar(name[i])]
        body == SubSeq(lower, 1, SetMax({0} \cup {i \in 1..Len(lower) : ~IsSpace(lower[i])}))
    IN  NoSpaces(IF EndsWith(body, wXlsx) THEN SubSeq(body, 1, Len(body) - Len(wXlsx))
                 ELSE body)

CandidateKeys ==
    {CriteriaKey(SHARED_CRITERIA_FILE_CANDIDATES[i]) :
        i \in 1..Len(SHARED_CRITERIA_FILE_CANDIDATES)}

IsCriteriaFile(entry) ==
    entry.isDict /\ entry.name # None /\ CriteriaKey(entry.name) \in CandidateKeys

\* C17: when a listed file of the gs folder has a candidate's normalised name,
\* ensure_drive_setup returns a listed entry of that kind with created = false
\* and uploads nothing; it uploads only when no listed file matches, at most
\* once, and then returns created = true.
C17_CreatedOnlyWhenAbsent ==
    call.fn = "ensure_drive_setup" =>
        /\ Len(drive.uploads) <= 1
        /\ (\E i \in 1..Len(drive.files) :
                drive.files[i] # UploadedEntry /\ IsCriteriaFile(drive.files[i]))
               => drive.uploads = <<>>
        /\ (call.done /\ ~call.raised) =>
               IF \E i \in 1..Len(drive.files) :
                      drive.files[i] # UploadedEntry /\ IsCriteriaFile(drive.files[i])
               THEN /\ ~call.created
                    /\ \E i \in 1..Len(drive.files) : call.criteria = drive.files[i]
                    /\ IsCriteriaFile(call.criteria)
                    /\ call.criteria # UploadedEntry
               ELSE /\ call.created
                    /\ Len(drive.uploads) = 1
                    /\ call.criteria = UploadedEntry

\* a file named like a candidate but for case and spacing, after another file
C17_Witness ==
    /\ call.fn = "ensure_drive_setup"
    /\ call.done
    /\ ~call.raised
    /\ Len(drive.files) = 2
    /\ ~IsCriteriaFile(drive.files[1])
    /\ call.criteria = drive.files[2]
    /\ call.criteria.id = "c2"
    /\ ~call.created
    /\ drive.uploads = <<>>

-----------------------------------------------------------------------------
(* Properties of ensure_valid_tokens *)

\* expired: expires_in > 0 and the time is at or after saved_at + expires_in - 60
TokenIsExpired ==
    /\ call.tokens.expires_in > 0
    /\ call.now + 60 >= call.tokens.saved_at + call.tokens.expires_in

\* C18: ensure_valid_tokens returns the given tokens and refreshes nothing when
\* the token is not expired; when it is expired it calls refresh_access_token
\* exactly once and returns what that call saved (or fails as that call failed).
C18_TokenValidity ==
    call.fn = "ensure_valid_tokens" =>
        /\ call.refresh_calls <= 1
        /\ call.done =>
               IF TokenIsExpired
               THEN /\ call.refresh_calls = 1
                    /\ call.raised = 0 =>
                           /\ Len(call.saved) = 1
                           /\ call.result = call.saved[1]
                           /\ call.result.access_token = "fresh"
               ELSE /\ call.refresh_calls = 0
                    /\ call.saved = <<>>
                    /\ call.raised = 0
                    /\ call.result = call.tokens

\* a token refreshed in the first second of its last minute
C18_Witness ==
    /\ call.fn = "ensure_valid_tokens"
    /\ call.done
    /\ call.tokens.expires_in = 70
    /\ call.now = call.tokens.saved_at + 10
    /\ call.refresh_calls = 1
    /\ call.raised = 0
    /\ call.result.access_token = "fresh"
    /\ call.result # call.tokens

-----------------------------------------------------------------------------
(* Properties of drive_name_matches *)

\* C19: no variant is shorter than 2 characters; two names match exactly when
\* their variant sets have a common element, so the answer is the same with
\* the arguments exchanged and is false when either name has no variant.
C19_VariantMatching ==
    (call.fn = "drive_name_matches" /\ call.done) =>
        /\ \A v \in call.actual_tokens \cup call.expected_tokens : Len(v) >= 2
        /\ call.result <=> (\E v \in call.actual_tokens : v \in call.expected_tokens)
        /\ call.result <=> call.exchanged
        /\ (call.actual_tokens = {} \/ call.expected_tokens = {}) => ~call.result

\* "a.x" and "A ": the only text they share, "a", is too short to be a key
C19_Witness ==
    /\ call.fn = "drive_name_matches"
    /\ call.done
    /\ call.value = <<"a", ".", "x">>
    /\ call.expected = <<"A", SPACE>>
    /\ call.actual_tokens # {}
    /\ call.expected_tokens = {}
    /\ ~call.result

-----------------------------------------------------------------------------
(* Properties of the column map *)

\* the columns of the header row whose cell matches schema label j
ColumnsMatching(j) ==
    {c \in 1..Len(sheetRows[parsed.header_row_index]) :
        /\ sheetRows[parsed.header_row_index][c] # None
        /\ drive_name_matches(sheetRows[parsed.header_row_index][c],
                              FEATURE_LIST_EXPECTED_HEADERS[j])}

\* C20: after a header row was recognised, the column map has one entry for
\* every schema label: the leftmost column whose header cell matches the
\* label, or the label's own position in the schema when no cell matches it.
C20_ColumnMapping ==
    (parsed.done /\ parsed.header_row_index # 0) =>
        /\ DOMAIN parsed.column_map = 1..Len(FEATURE_LIST_EXPECTED_HEADERS)
        /\ \A j \in 1..Len(FEATURE_LIST_EXPECTED_HEADERS) :
              \E cols \in {ColumnsMatching(j)} :
                 /\ cols # {} => /\ parsed.column_map[j] \in cols
                                 /\ \A c \in cols : parsed.column_map[j] <= c
                 /\ cols = {} => parsed.column_map[j] = j

\* a label in two cells and a label in none
C20_Witness ==
    /\ parsed.done
    /\ parsed.header_row_index # 0
    /\ \E j \in 1..Len(FEATURE_LIST_EXPECTED_HEADERS) :
          /\ Cardinality(ColumnsMatching(j)) = 2
          /\ parsed.column_map[j] # j
          /\ parsed.column_map[j] + 1 \in ColumnsMatching(j)
    /\ \E j \in 1..Len(FEATURE_LIST_EXPECTED_HEADERS) :
          /\ ColumnsMatching(j) = {}
          /\ parsed.column_map[j] = j


-----------------------------------------------------------------------------
(* Properties of the header scan *)

\* C21: the header row is looked for in the first 2 x FEATURE_LIST_START_ROW
\* rows only, so the header row selected is never below row 16.
C21_BoundedHeaderScan ==
    parsed.done => parsed.header_row_index <= 2 * FEATURE_LIST_START_ROW


-----------------------------------------------------------------------------
(* Properties of the Drive client operations *)

\* C22: an operation sends at most two requests and refreshes at most once;
\* it refreshes only after a 401 answer to the first request, the second
\* request carries the refreshed access token, and the tokens returned are
\* those whose access token the answered request carried.
C22_BoundedRetry ==
    call.fn \in ClientOperations =>
        /\ Len(call.attempts) <= 2
        /\ call.refresh_calls <= 1
        /\ call.refresh_calls = 1 =>
               Len(call.attempts) >= 1 /\ call.attempts[1].status_code = 401
        /\ Len(call.attempts) >= 1 => call.attempts[1].authorization = call.tokens.access_token
        /\ Len(call.attempts) = 2 =>
               /\ call.refresh_calls = 1
               /\ Len(call.saved) = 1
               /\ call.attempts[2].authorization = call.saved[1].access_token
        /\ (call.done /\ call.raised = 0) =>
               /\ call.result.access_token = call.attempts[Len(call.attempts)].authorization
               /\ call.result = IF Len(call.attempts) = 2 THEN call.saved[1] ELSE call.tokens

\* an upload answered 401, then 200 after the refresh
C22_Witness ==
    /\ call.fn = "upload_file"
    /\ call.done
    /\ call.raised = 0
    /\ Len(call.attempts) = 2
    /\ call.attempts[1].status_code = 401
    /\ call.attempts[2].status_code = 200
    /\ call.attempts[2].authorization = "fresh"
    /\ call.result.access_token = "fresh"

\* C23: an operation that was answered 401 to its first request and 401 again
\* to the request made after the refresh fails with status 401.
C23_PersistentUnauthorized ==
    (/\ call.fn \in ClientOperations
     /\ call.done
     /\ Len(call.attempts) = 2
     /\ call.attempts[1].status_code = 401
     /\ call.attempts[2].status_code = 401) => call.raised = 401


-----------------------------------------------------------------------------
(* Properties of refresh_access_token *)

\* the number of calls logged that wrote to the token store, up to call n
RECURSIVE WritesUpTo(_)
WritesUpTo(n) ==
    IF n = 0 THEN 0 ELSE WritesUpTo(n - 1) + (IF call.log[n].wrote THEN 1 ELSE 0)

\* C24: every payload handed to the token store has a non-empty refresh_token,
\* the provider's when it supplied one and the previous one otherwise; a call
\* with tokens without a refresh_token fails with 401, sends no request and
\* writes nothing.
C24_RefreshTokenKept ==
    call.fn = "refresh_access_token" =>
        /\ Len(call.store) = WritesUpTo(Len(call.log))
        /\ \A n \in 1..Len(call.log) :
              /\ call.log[n].wrote =>
                     /\ call.store[WritesUpTo(n)].refresh_token # ""
                     /\ call.store[WritesUpTo(n)].refresh_token =
                            IF call.log[n].supplied \notin {"<None>", ""}
                            THEN call.log[n].supplied ELSE call.log[n].previous
              /\ call.log[n].previous = "" =>
                     /\ call.log[n].status = 401
                     /\ ~call.log[n].sent
                     /\ ~call.log[n].wrote
        /\ (\A n \in 1..Len(call.log) : call.log[n].previous = "") => call.requests = 0

\* the token rotated by the first call is kept by the second, whose answer
\* has an empty refresh_token, and rotated again by the third
C24_Witness ==
    /\ call.fn = "refresh_access_token"
    /\ Len(call.store) = 3
    /\ call.log[1].supplied = "rotated"
    /\ call.log[2].supplied = ""
    /\ call.store[2].refresh_token = "rotated"
    /\ call.store[3].refresh_token = "rotated again"


-----------------------------------------------------------------------------
(* Properties of the OAuth state values *)

\* the callbacks that passed the state check
PassedCallbacks ==
    {i \in 1..Len(call.callbacks) : call.callbacks[i].pc \in {"passed", "exchanged"}}

-----------------------------------------------------------------------------
(* Properties of PromptStore *)

\* the steps a thread takes while it holds the lock
LockedSteps ==
    {"load", "load_save", "load_cache", "mutate", "save", "cache", "return", "unlock"}

\* what get_prompt(menu_id) returns from the cache of this state
CachedPrompt(menu_id) == call.heap[call.cache][menu_id]

\* C26: two update_prompt calls for different menus and a reader, in any
\* interleaving: once both updates have returned, the cache and the file hold
\* both stripped prompts; the defaults are written at most once; the lock is
\* held exactly by the thread that is inside a locked block, and while a
\* thread has not finished some thread can take a step.
C26_NoLostUpdate ==
    call.fn = "prompt_store" =>
        /\ call.default_inits <= 1
        /\ \A t \in Updaters \cup Readers :
              call.threads[t].pc \in LockedSteps <=> call.lock = t
        /\ (\E t \in Updaters \cup Readers :
                call.threads[t].pc \notin {"done", "raised", "load_raised"})
               => ENABLED NextPrompts
        /\ (\A t \in Updaters : call.threads[t].pc = "done") =>
              /\ call.cache # 0
              /\ call.file.exists /\ call.file.valid
              /\ \A t \in Updaters :
                    /\ call.threads[t].result = NormalizedPrompt(call.threads[t].prompt)
                    /\ CachedPrompt(call.threads[t].menu_id) = call.threads[t].result
                    /\ call.file.data[call.threads[t].menu_id] = call.threads[t].result
              /\ CachedPrompt("m1") = PromptTemplate(<<"s", "1">>, <<"i", "1">>)
              /\ CachedPrompt("m2") = PromptTemplate(<<"s", "2">>, <<"i", "2">>)

\* the reader found no cache and waited for the lock while the first update
\* loaded the defaults; both updates returned and the reader read m2
C26_Witness ==
    /\ call.fn = "prompt_store"
    /\ \A t \in Updaters \cup Readers : call.threads[t].pc = "done"
    /\ call.default_inits = 1
    /\ call.threads[3].op = "get_prompt"
    /\ call.threads[3].menu_id = "m2"
    /\ call.threads[3].result = PromptTemplate(<<"s", "2">>, <<"i", "2">>)
    /\ call.file.data["m1"] = PromptTemplate(<<"s", "1">>, <<"i", "1">>)

\* C27: when the write of the file fails in update_prompt(m, p), get_prompt(m)
\* returns afterwards what it returned before the update.
C27_FailureAtomic ==
    call.fn = "prompt_store" =>
        \A t \in Updaters :
            call.threads[t].pc = "raised" =>
                CachedPrompt(call.threads[t].menu_id) = call.threads[t].before


-----------------------------------------------------------------------------
(* Properties of create_project *)

\* C28: every project folder is created under a name that was not among the
\* names listed, the project name itself or "name (k)" for the smallest k >= 2
\* not listed; and no two folders created by a sequence of create_project
\* calls have the same name.
C28_UniqueProjectNames ==
    call.fn = "create_project" =>
        /\ \A n \in 1..Len(call.created) :
              /\ call.created[n].name \notin call.created[n].existing_names
              /\ call.created[n].name.stem = "p"
              /\ \A k \in 1..(call.created[n].name.k - 1) :
                    FolderName("p", k) \in call.created[n].existing_names
        /\ \A n \in 1..Len(call.created), m \in 1..Len(call.created) :
              call.created[n].name = call.created[m].name => n = m


-----------------------------------------------------------------------------
(* Properties of generate_csv *)

\* the number of files.delete calls made for the file id
DeleteCount(file_id) ==
    Cardinality({d \in 1..Len(call.deletes) : call.deletes[d].file_id = file_id})

\* C29: when generate_csv returns or raises after its upload loop began,
\* files.delete was called exactly once for every file uploaded for an
\* attachment that is not built in, and for no other file, whether or not a
\* delete failed; and the call ends as it would have without the clean-up.
C29_TemporaryUploadsDeleted ==
    call.fn = "generate_csv" =>
        /\ \A u \in 1..Len(call.uploaded) : DeleteCount(call.uploaded[u].file_id) <= 1
        /\ \A d \in 1..Len(call.deletes) :
              \E u \in 1..Len(call.uploaded) :
                 /\ call.uploaded[u].file_id = call.deletes[d].file_id
                 /\ ~call.uploaded[u].builtin
        /\ call.done =>
              /\ \A u \in 1..Len(call.uploaded) :
                    DeleteCount(call.uploaded[u].file_id) =
                        IF call.uploaded[u].builtin THEN 0 ELSE 1
              /\ call.outcome = call.decided
              /\ call.outcome \in {200, 502}

\* two user files and a built-in one were uploaded, the completion failed,
\* the first delete failed and the second was still made
C29_Witness ==
    /\ call.fn = "generate_csv"
    /\ call.done
    /\ call.outcome = 502
    /\ Len(call.uploaded) = 3
    /\ call.uploaded[3].builtin
    /\ Len(call.deletes) = 2
    /\ call.deletes[1].failed
    /\ ~call.deletes[2].failed


-----------------------------------------------------------------------------
(* Properties of the resolved column map *)

\* C30: after the header was resolved no two schema labels are mapped to the
\* same column.
C30_ColumnMapInjective ==
    parsed.done =>
        \A j \in DOMAIN parsed.column_map, k \in DOMAIN parsed.column_map :
            parsed.column_map[j] = parsed.column_map[k] => j = k

====
